---- MODULE Spec2Model ----
(***************************************************************************)
(* Model of the curl-impersonate net/http wrapper (src/client.go):         *)
(* the Client facade with its lazy initialisation, Transport.RoundTrip,    *)
(* performOptimizedRequest, and the handle pool (getCurlHandle /           *)
(* returnCurlHandle) backed by a buffered channel and two sync.Once gates. *)
(* Each goroutine makes one call: a verb on the shared Client, or a direct *)
(* RoundTrip on the pre-constructed Transport T0.  Goroutines are numbered *)
(* in the order in which they make their call.                             *)
(* The text functions of a transfer have specifications of their own: the  *)
(* response-header callback and parseHeaders (SpecHeaders), the split of a *)
(* combined header+body response (SpecSplit), the flattening of request    *)
(* headers (SpecFlatten), and one call traced option by option             *)
(* (SpecOptions).  The data of one call has four more: the request body,  *)
(* the options of the request and the assembled response (SpecTransfer),   *)
(* the response buffer through its three methods (SpecBuffer), the option  *)
(* state of a handle over its acquire/release cycles (SpecConfig), and the *)
(* defaults of configureCurlHandle in concurrent requests (SpecRace).      *)
(* SpecClients runs the calls on the constructed clients and the package-  *)
(* level calls, SpecBlocks the header lines of a perform that receives     *)
(* several header blocks.                                                  *)
(***************************************************************************)
EXTENDS Integers, Sequences, FiniteSets, TLC

\* ---- bounds -------------------------------------------------------------
NumReqs == 2
MaxPoolSize == 1
MaxFed == 5
MaxBlob == 6
MaxValues == 2
MaxBody == 2
InitialCap == 1
MaxCycles == 2
MaxLines == 5

\* ---- program constants --------------------------------------------------
DefaultPoolSize == 200
NewTransportPoolSize == 10
DefaultTimeout == 30
CustomTimeout == 10

NilT == 0
NilH == 0
T0 == 1

G == 1..NumReqs
TIds == 1..(NumReqs + 1)
HIds == 1..NumReqs

ErrNilRequest == "request cannot be nil"
ErrNilURL == "request URL cannot be nil"
ErrReadBody == "failed to read request body"
ErrGetHandle == "failed to get curl handle"
ErrSetopt == "failed to set option"
ErrPerform == "request failed"
ErrGetinfo == "failed to get response code"
ErrSeparate == "failed to separate headers and body in response"

VARIABLES
  client,            \* Client: [Transport, Timeout, initialized]
  numTransports,     \* Transports constructed so far (T0 is the first)
  maxPoolSize,       \* Transport.maxPoolSize, per transport
  poolOnceDone,      \* Transport.poolOnce: done flag
  poolInits,         \* times the body of initPool's Do ran, per transport
  chanCap,           \* cap(t.curlHandles); 0 while the channel is nil
  curlHandles,       \* t.curlHandles: the buffered channel's contents (FIFO)
  globalOnceDone,    \* globalInitOnce: done flag
  globalInits,       \* calls of curl.GlobalInit
  numHandles,        \* handles returned by curl.EasyInit so far
  hstate,            \* per handle: "none", "live", "destroyed"
  hcfg,              \* per handle: persistent configuration applied
  hreq,              \* per handle: the sinks its per-request options reference, NoSinks when none are set
  howner,            \* per handle: the transport that created it
  cleanups,          \* per handle: calls of Cleanup
  pc,                \* per goroutine: position
  kind,              \* per goroutine: "verb" (Client verb) or "rt" (direct RoundTrip)
  req,               \* per goroutine: "nil", "nilurl" or "ok"
  tr,                \* per goroutine: the Transport its RoundTrip runs on (a local, gone at return)
  easy,              \* per goroutine: result of getCurlHandle (a local, gone at return)
  returns,           \* per goroutine: completed returnCurlHandle calls
  resp,              \* per goroutine: a response was returned
  performs,          \* per goroutine: calls of easy.Perform
  err,               \* per goroutine: the error returned, "" for none
  fedLines,          \* the raw header lines the native layer has passed to writeHeaderToMap
  headerMap,         \* responseHeaders: the http.Header the header callback fills
  parsedLF,          \* parseHeaders applied to the fed lines joined with "\n"
  parsedCRLF,        \* parseHeaders applied to the fed lines joined with "\r\n"
  combinedStr,       \* the combined header+body bytes the write callback has stored
  reqHeader,         \* req.Header: name -> list of values, as the caller built it
  flat,              \* headers: the name -> single value map RoundTrip makes of req.Header
  requestHeaders,    \* the "Name: value" list handed to the handle (OPT_HTTPHEADER)
  rejected,          \* the options the native handle of the traced call rejects
  reported,          \* the options for which that handle has reported an error
  callErr,           \* the error the traced call returns, "" for none
  callPc,            \* the traced call's position in performOptimizedRequest
  separated,         \* what the split of combinedStr gave: header, body, error
  request,           \* the *http.Request of the traced call: Method, URL, Body (a stream)
  local,             \* locals of the traced call: body, responseBuffer, responseBodyData
  arrays,            \* the byte arrays allocated for the response buffer, in order of allocation
  handle,            \* the traced call's handle: options set, transfer info, requests it has served
  response,          \* the *http.Response the traced call returns
  transport,         \* the configuration fields of the Transport the handle belongs to
  cfgPos             \* per goroutine: its position inside configureCurlHandle

vars == <<client, numTransports, maxPoolSize, poolOnceDone, poolInits,
          chanCap, curlHandles, globalOnceDone, globalInits,
          numHandles, hstate, hcfg, hreq, howner, cleanups,
          pc, kind, req, tr, easy, returns, resp, performs, err,
          fedLines, headerMap, parsedLF, parsedCRLF, combinedStr, separated,
          reqHeader, flat, requestHeaders, rejected, reported, callErr, callPc,
          request, local, arrays, handle, response, transport, cfgPos>>

clientVars == <<client, numTransports, maxPoolSize>>
poolVars == <<poolOnceDone, poolInits, chanCap, curlHandles>>
globalVars == <<globalOnceDone, globalInits>>
handleVars == <<numHandles, hstate, hcfg, hreq, howner, cleanups>>
callVars == <<kind, req, tr>>
resultVars == <<easy, returns, resp, performs, err>>
headerVars == <<fedLines, headerMap, parsedLF, parsedCRLF>>
splitVars == <<combinedStr, separated>>
flattenVars == <<reqHeader, flat, requestHeaders>>
optionVars == <<rejected, reported, callErr, callPc>>
transferVars == <<request, local, arrays, handle, response>>
configVars == <<transport, cfgPos>>
fnVars == <<headerVars, splitVars, flattenVars, optionVars, transferVars, configVars>>
transportVars == <<clientVars, poolVars, globalVars, handleVars, pc, callVars, resultVars>>

\* ---- helpers modelling the code ------------------------------------------

Range(s) == {s[i] : i \in 1..Len(s)}

\* RoundTrip's precondition checks: the error returned, "" to go on
NilCheckNoURL(r) == IF r = "nil" THEN ErrNilRequest ELSE ""
NilCheck(r) ==
  IF r = "nil" THEN ErrNilRequest
  ELSE IF r = "nilurl" THEN ErrNilURL
  ELSE ""

\* initPool: the capacity the channel is made with
initPoolCap(mps) == IF mps = 0 THEN DefaultPoolSize ELSE mps

\* sync.Once.Do, slow path (under the Once's mutex): f runs only when done is still unset
onceAlwaysRun(done) == TRUE
onceShouldRun(done) == ~done

\* getCurlHandle's select: the handle received, NilH when the default branch is taken
selectRecvNever(q) == NilH
selectRecv(q) == IF q # <<>> THEN Head(q) ELSE NilH

\* what a receive leaves in the channel
chanAfterRecvPeek(q) == q
chanAfterRecv(q) == Tail(q)

\* returnCurlHandle's select: the send case is taken iff the buffer has room
sendTakenOffByOne(q, cap) == Len(q) <= cap
sendTakenNever(q, cap) == FALSE
sendTaken(q, cap) == Len(q) < cap

\* returnCurlHandle's select has a default branch: it is always ready
selectSendReadyBlocking(q, cap) == Len(q) < cap
selectSendReady(q, cap) == TRUE

\* handle.Cleanup: the state it leaves the handle in
cleanupLeak == "live"
cleanupResult == "destroyed"

\* a handle without per-request options references no response buffer and no
\* header collector
NoSinks == 0

\* performOptimizedRequest: responseBuffer := &responseBuffer{...} and
\* responseHeaders := make(http.Header) are allocated by the call itself, so
\* each call wires sinks of its own (named after the call) to its handle
sharedSinks(g) == 1
newSinks(g) == g

\* handle.Reset() clears every option of the handle, the sinks included
handleResetKeepsSinks(sinks) == sinks
handleReset(sinks) == NoSinks

\* performOptimizedRequest: easy := t.getCurlHandle(); if easy == nil { return
\* nil, fmt.Errorf("failed to get curl handle") }; the defer comes after it
afterGetHandleNoCheck(h) == "perform"
afterGetHandle(h) == IF h = NilH THEN "done" ELSE "perform"

\* performOptimizedRequest after the defer is registered: where the return
\* with error e ("" for the success path) goes
returnFromNoDefer(e) == IF e = ErrPerform THEN "done" ELSE "release"
returnFromRetry(e) == IF e = ErrPerform THEN "perform" ELSE "release"
returnFrom(e) == "release"

\* performOptimizedRequest: a response is built only on the path that ends
\* in return resp, nil; every failure path is return nil, fmt.Errorf(...)
performResultPartial(e) == e \in {"", ErrGetinfo}
performResult(e) == e = ""

\* easy.Perform() is reached once every Setopt before it was accepted
performCalls(e) == IF e = ErrSetopt THEN 0 ELSE 1

\* ---- text: strings are sequences of characters ----------------------------

\* the characters the header texts are made of: a lower-case and an upper-case
\* letter, the colon, the three kinds of white space, and "HTTP/", which stands
\* for the five characters of the protocol-version token
Char == {"x", "X", ":", " ", "\r", "\n", "HTTP/"}

\* a raw header line as the native layer hands it to the callback holds no "\n"
\* before its end
LineChar == Char \ {"\n"}

\* strings.TrimSpace: leading and trailing white space removed
IsSpace(c) == c \in {" ", "\r", "\n"}

RECURSIVE TrimLeft(_)
TrimLeft(s) == IF s # <<>> /\ IsSpace(Head(s)) THEN TrimLeft(Tail(s)) ELSE s

RECURSIVE TrimRight(_)
TrimRight(s) ==
  IF s # <<>> /\ IsSpace(s[Len(s)]) THEN TrimRight(SubSeq(s, 1, Len(s) - 1)) ELSE s

TrimSpaceLeftOnly(s) == TrimLeft(s)
TrimSpace(s) == TrimRight(TrimLeft(s))

\* strings.HasPrefix(line, "HTTP/")
HasPrefixHTTPNever(line) == FALSE
HasPrefixHTTP(line) == line # <<>> /\ Head(line) = "HTTP/"

\* strings.Index for a one-character separator: the first position, 0 if absent
Index(s, c) ==
  IF \E i \in 1..Len(s) : s[i] = c
    THEN CHOOSE i \in 1..Len(s) : s[i] = c /\ \A j \in 1..(i - 1) : s[j] # c
    ELSE 0

\* strings.SplitN(s, c, 2): one part when c is absent, else the text before
\* the first c and the text after it
SplitN2(s, c) ==
  LET i == Index(s, c) IN
    IF i = 0 THEN <<s>> ELSE <<SubSeq(s, 1, i - 1), SubSeq(s, i + 1, Len(s))>>

\* strings.Split(s, "\n")
RECURSIVE SplitLines(_)
SplitLines(s) ==
  LET i == Index(s, "\n") IN
    IF i = 0 THEN <<s>>
    ELSE <<SubSeq(s, 1, i - 1)>> \o SplitLines(SubSeq(s, i + 1, Len(s)))

\* http.Header.Add canonicalises the key (textproto.CanonicalMIMEHeaderKey): a
\* key holding a byte that is no header-token byte is left as it is, otherwise
\* the first letter is made upper case and the other letters lower case
Upper(c) == IF c = "x" THEN "X" ELSE c
Lower(c) == IF c = "X" THEN "x" ELSE c
CanonicalMIMEHeaderKey(k) ==
  IF \E i \in 1..Len(k) : k[i] \notin {"x", "X"}
    THEN k
    ELSE [i \in 1..Len(k) |-> IF i = 1 THEN Upper(k[i]) ELSE Lower(k[i])]

\* http.Header: a mapping from names to their list of values
EmptyHeader == [k \in {} |-> <<>>]

\* http.Header.Add(key, value): the value is appended to the list of the
\* canonicalised key
HeaderAddOverwrite(h, key, value) ==
  LET k == CanonicalMIMEHeaderKey(key) IN
    [n \in DOMAIN h \cup {k} |-> IF n = k THEN <<value>> ELSE h[n]]
HeaderAdd(h, key, value) ==
  LET k == CanonicalMIMEHeaderKey(key) IN
    [n \in DOMAIN h \cup {k} |->
       IF n = k THEN (IF k \in DOMAIN h THEN h[k] ELSE <<>>) \o <<value>> ELSE h[n]]

\* writeHeaderToMap(data, userdata): the header callback, called once per raw
\* header line; the mapping it leaves in userdata
writeHeaderToMap(h, data) ==
  LET line == TrimSpace(data) IN
    IF line = <<>> THEN h
    ELSE IF HasPrefixHTTP(line) THEN h
    ELSE LET parts == SplitN2(line, ":") IN
           IF Len(parts) = 2
             THEN HeaderAdd(h, TrimSpace(parts[1]), TrimSpace(parts[2]))
             ELSE h

\* parseHeaders(headerData): the body of its loop over the lines, and the loop
parseHeaderLine(h, l) ==
  LET line == TrimSpace(l) IN
    IF line = <<>> THEN h
    ELSE IF HasPrefixHTTP(line) THEN h
    ELSE LET parts == SplitN2(line, ":") IN
           IF Len(parts) = 2
             THEN HeaderAdd(h, TrimSpace(parts[1]), TrimSpace(parts[2]))
             ELSE h

RECURSIVE parseHeaderLines(_, _)
parseHeaderLines(h, lines) ==
  IF lines = <<>> THEN h
  ELSE parseHeaderLines(parseHeaderLine(h, Head(lines)), Tail(lines))

parseHeaders(headerData) == parseHeaderLines(EmptyHeader, SplitLines(headerData))

\* the header block the fed lines make when every line ends in eol
RECURSIVE Block(_, _)
Block(lines, eol) ==
  IF lines = <<>> THEN <<>> ELSE Head(lines) \o eol \o Block(Tail(lines), eol)

\* bytes of the fed lines, each with its line end
RECURSIVE FedBytes(_)
FedBytes(lines) ==
  IF lines = <<>> THEN 0 ELSE Len(Head(lines)) + 1 + FedBytes(Tail(lines))

\* ---- the combined header+body blob ------------------------------------------

\* the characters of a blob: a content byte and the two line-end bytes
BlobChar == {"x", "\r", "\n"}

CRLFCRLF == <<"\r", "\n", "\r", "\n">>
LFLF == <<"\n", "\n">>

\* the positions at which sep occurs in s
Occurrences(s, sep) ==
  {i \in 1..(Len(s) - Len(sep) + 1) : SubSeq(s, i, i + Len(sep) - 1) = sep}

\* strings.SplitN(s, sep, 2): one part when sep does not occur, else the text
\* before its first occurrence and the text after that occurrence
SplitNSep(s, sep) ==
  IF Occurrences(s, sep) = {} THEN <<s>>
  ELSE LET i == CHOOSE i \in Occurrences(s, sep) : \A j \in Occurrences(s, sep) : i <= j
       IN <<SubSeq(s, 1, i - 1), SubSeq(s, i + Len(sep), Len(s))>>

\* the split of the combined response: on "\r\n\r\n", else on "\n\n", else the
\* request fails with the parse error and no response
separateResponseLFFirst(s) ==
  LET p == SplitNSep(s, LFLF)
      q == SplitNSep(s, CRLFCRLF)
  IN IF Len(p) = 2
       THEN [done |-> TRUE, resp |-> TRUE, err |-> "", header |-> p[1], body |-> p[2]]
     ELSE IF Len(q) = 2
       THEN [done |-> TRUE, resp |-> TRUE, err |-> "", header |-> q[1], body |-> q[2]]
     ELSE [done |-> TRUE, resp |-> FALSE, err |-> ErrSeparate, header |-> <<>>, body |-> <<>>]
separateResponse(s) ==
  LET p == SplitNSep(s, CRLFCRLF)
      q == SplitNSep(s, LFLF)
  IN IF Len(p) = 2
       THEN [done |-> TRUE, resp |-> TRUE, err |-> "", header |-> p[1], body |-> p[2]]
     ELSE IF Len(q) = 2
       THEN [done |-> TRUE, resp |-> TRUE, err |-> "", header |-> q[1], body |-> q[2]]
     ELSE [done |-> TRUE, resp |-> FALSE, err |-> ErrSeparate, header |-> <<>>, body |-> <<>>]

\* ---- request headers ----------------------------------------------------------

\* the header names and values a caller puts on a request
HeaderNames == {"X-Test-Header", "User-Agent"}
HeaderValues == {"test-value", "test-agent/1.0"}

\* headers[name] = values[0]: the one value kept for a name
headerValueMerged(values) ==
  IF Len(values) > 1 THEN "test-value, test-agent/1.0" ELSE values[1]
headerValue(values) == values[1]

\* RoundTrip's loop over req.Header: names with at least one value are kept
flattenHeaders(h) ==
  [name \in {n \in DOMAIN h : Len(h[n]) > 0} |-> headerValue(h[name])]

\* fmt.Sprintf("%s: %s", name, value)
Entry(name, value) == <<name, ": ", value>>

\* ---- options applied to a handle ------------------------------------------------

\* options of the persistent configuration (configureCurlHandle) and of one
\* request (performOptimizedRequest), the latter in the order they are applied
PersistentOptions == {"IMPERSONATE", "SSL_VERIFYPEER", "TIMEOUT_MS"}
RequestOptions == <<"URL", "HTTPHEADER", "WRITEFUNCTION">>

\* the error performOptimizedRequest returns when the handle rejects a
\* request option, or when the perform fails
OptionError(o) ==
  IF o = "URL" THEN "failed to set URL"
  ELSE IF o = "HTTPHEADER" THEN "failed to set headers"
  ELSE IF o = "WRITEFUNCTION" THEN "failed to set write function"
  ELSE ErrPerform

\* configureCurlHandle calls handle.Setopt and handle.Impersonate as
\* statements: their error results are discarded, and the function returns
\* nothing
configureCurlHandleError(rej) == ""

\* the first request option the handle rejects, "" when it accepts them all
FirstRejected(rej) ==
  IF \E i \in 1..Len(RequestOptions) : RequestOptions[i] \in rej
    THEN RequestOptions[CHOOSE i \in 1..Len(RequestOptions) :
                          /\ RequestOptions[i] \in rej
                          /\ \A j \in 1..(i - 1) : RequestOptions[j] \notin rej]
    ELSE ""

\* ---- the traced call: memory, request, Transport fields, handle ----------------

\* nil values of the traced call
NoRequest == [nil |-> TRUE]
NoHandle == [nil |-> TRUE]
NoResponse == [nil |-> TRUE]
NilSlice == [arr |-> 0, len |-> 0]
NilProxy == ""

\* the bytes of request and response bodies, and the byte of fresh memory
Byte == {"a", "b"}
ZeroByte == "0"
Bodies == UNION {[1..n -> Byte] : n \in 0..MaxBody}

\* the methods of a request (PATCH stands for every method the switch does not
\* name) and its targets ("/post" is served by the echo collaborator)
Methods == {"GET", "HEAD", "POST", "PUT", "DELETE", "PATCH"}
URLs == {"/get", "/post"}

\* req.Body: nil, or a stream of which pos bytes have been read
NilBody == [present |-> FALSE, data |-> <<>>, pos |-> 0]
Stream(data) == [present |-> TRUE, data |-> data, pos |-> 0]

\* io.ReadAll(req.Body): the unread part of the stream
ReadAllFirstByte(b) == SubSeq(b.data, b.pos + 1, IF Len(b.data) > b.pos THEN b.pos + 1 ELSE b.pos)
ReadAll(b) == SubSeq(b.data, b.pos + 1, Len(b.data))

\* bytes.NewBuffer(make([]byte, 0, 4096)): a fresh array of zero bytes
NewArray(cap) == [i \in 1..cap |-> ZeroByte]

\* a slice s = [arr, len] views the first len bytes of array arr
SliceBytes(arrs, s) == IF s.arr = 0 THEN <<>> ELSE SubSeq(arrs[s.arr], 1, s.len)

\* responseBuffer.Write -> bytes.Buffer.Write(p): the bytes go behind the
\* buffer's contents, in place when the array has room and otherwise into a
\* new array of at least twice the capacity that the contents are copied to
bufferWrite(arrs, b, p) ==
  LET n == Len(p)
      cap == Len(arrs[b.arr])
      c == IF b.len + n < 2 * cap THEN 2 * cap ELSE b.len + n
      put(a) == [i \in 1..Len(a) |->
                   IF i > b.len /\ i <= b.len + n THEN p[i - b.len] ELSE a[i]]
  IN IF b.len + n <= cap
       THEN [arrays |-> [arrs EXCEPT ![b.arr] = put(@)],
             buffer |-> [b EXCEPT !.len = b.len + n]]
       ELSE [arrays |-> Append(arrs, put([i \in 1..c |->
                                             IF i <= b.len THEN arrs[b.arr][i] ELSE ZeroByte])),
             buffer |-> [arr |-> Len(arrs) + 1, len |-> b.len + n]]

\* responseBuffer.Bytes -> bytes.Buffer.Bytes(): the slice b.buf[b.off:] of the
\* buffer's own array, not a copy
bufferBytes(b) == b

\* responseBuffer.Reset -> bytes.Buffer.Reset(): b.buf = b.buf[:0]
bufferReset(b) == [b EXCEPT !.len = 0]

\* the configuration fields of a Transport: the zero value, NewTransport(), and
\* the Transport NewClientWithTarget(target) builds
ZeroTransport ==
  [ImpersonateTarget |-> "", Proxy |-> NilProxy, UseDefaultHeaders |-> FALSE,
   MaxConnects |-> 0, MaxAgeConn |-> 0, MaxLifetimeConn |-> 0,
   ConnectTimeoutMs |-> 0, TimeoutMs |-> 0, DNSCacheTimeout |-> 0,
   BufferSize |-> 0, EnableTCPFastOpen |-> FALSE, HttpVersion |-> 0]
NewTransport ==
  [ImpersonateTarget |-> "chrome136", Proxy |-> NilProxy, UseDefaultHeaders |-> TRUE,
   MaxConnects |-> 50, MaxAgeConn |-> 300, MaxLifetimeConn |-> 600,
   ConnectTimeoutMs |-> 5000, TimeoutMs |-> 30000, DNSCacheTimeout |-> 300,
   BufferSize |-> 16384, EnableTCPFastOpen |-> FALSE, HttpVersion |-> 0]
TargetTransport(target) ==
  [ZeroTransport EXCEPT !.ImpersonateTarget = target, !.UseDefaultHeaders = TRUE]

\* configureCurlHandle, "Set defaults if not specified": the fields it tests, in
\* the order of its if statements, the zero value of each and the default it
\* assigns
DefaultedFields ==
  <<"ImpersonateTarget", "MaxConnects", "MaxAgeConn", "MaxLifetimeConn",
    "ConnectTimeoutMs", "TimeoutMs", "DNSCacheTimeout", "BufferSize">>
ZeroOf(f) == IF f = "ImpersonateTarget" THEN "" ELSE 0
DefaultOf(f) ==
  CASE f = "ImpersonateTarget" -> "chrome136"
    [] f = "MaxConnects" -> 50
    [] f = "MaxAgeConn" -> 300
    [] f = "MaxLifetimeConn" -> 600
    [] f = "ConnectTimeoutMs" -> 5000
    [] f = "TimeoutMs" -> 30000
    [] f = "DNSCacheTimeout" -> 300
    [] f = "BufferSize" -> 16384

\* if t.F == zero { t.F = default }, for one field and for all of them
setDefaultKeepZero(t, f) == t
setDefault(t, f) == IF t[f] = ZeroOf(f) THEN [t EXCEPT ![f] = DefaultOf(f)] ELSE t

RECURSIVE setDefaultsOf(_, _)
setDefaultsOf(t, fields) ==
  IF fields = <<>> THEN t ELSE setDefaultsOf(setDefault(t, Head(fields)), Tail(fields))

setDefaults(t) == setDefaultsOf(t, DefaultedFields)

\* the options of a handle: option name -> the value last set
EmptyOpts == [o \in {} |-> FALSE]
NoInfo == [code |-> 0, contentType |-> [ok |-> FALSE, ct |-> ""]]

\* handle.Setopt(o, v), and a sequence of such calls
Setopt(opts, o, v) == [k \in DOMAIN opts \cup {o} |-> IF k = o THEN v ELSE opts[k]]

RECURSIVE SetoptAll(_, _)
SetoptAll(opts, settings) ==
  IF settings = <<>> THEN opts
  ELSE SetoptAll(Setopt(opts, Head(settings)[1], Head(settings)[2]), Tail(settings))

\* configureCurlHandle after the defaults: the Setopt and Impersonate calls it
\* makes with the fields of t, in order
persistentSettings(t) ==
  << <<"HEADER", FALSE>>, <<"NOPROGRESS", TRUE>>,
     <<"IMPERSONATE", <<t.ImpersonateTarget, t.UseDefaultHeaders>> >>,
     <<"SSL_VERIFYPEER", FALSE>>, <<"SSL_VERIFYHOST", FALSE>>, <<"SSL_VERIFYSTATUS", FALSE>>,
     <<"FRESH_CONNECT", FALSE>>, <<"FORBID_REUSE", FALSE>>,
     <<"TCP_KEEPALIVE", TRUE>>, <<"TCP_KEEPIDLE", 60>>, <<"TCP_KEEPINTVL", 60>>,
     <<"MAXCONNECTS", t.MaxConnects>>, <<"MAXAGE_CONN", t.MaxAgeConn>>,
     <<"MAXLIFETIME_CONN", t.MaxLifetimeConn>>,
     <<"CONNECTTIMEOUT_MS", t.ConnectTimeoutMs>>, <<"TIMEOUT_MS", t.TimeoutMs>>,
     <<"DNS_CACHE_TIMEOUT", t.DNSCacheTimeout>>,
     <<"TCP_NODELAY", TRUE>> >>
  \o (IF t.EnableTCPFastOpen THEN << <<"TCP_FASTOPEN", TRUE>> >> ELSE <<>>)
  \o << <<"NOSIGNAL", TRUE>>, <<"BUFFERSIZE", t.BufferSize>> >>
  \o (IF t.Proxy # NilProxy
        THEN << <<"PROXY_SSL_VERIFYPEER", FALSE>>, <<"PROXY_SSL_VERIFYHOST", FALSE>> >>
        ELSE <<>>)
  \o (IF t.HttpVersion > 0 THEN << <<"HTTP_VERSION", t.HttpVersion>> >> ELSE <<>>)

\* configureCurlHandle(handle): the options of the handle afterwards; t is the
\* Transport after the defaults were set
configureCurlHandle(opts, t) == SetoptAll(opts, persistentSettings(t))

\* handle.Reset(): every option is back at its initial value
resetKeepsOptions(opts) == opts
resetOptions(opts) == EmptyOpts

\* performOptimizedRequest, switch method: the Setopt calls of each case
methodSettingsImplicitLength(method, body) ==
  CASE method = "GET" -> << <<"HTTPGET", TRUE>> >>
    [] method = "HEAD" -> << <<"NOBODY", TRUE>> >>
    [] method = "POST" ->
         << <<"POST", TRUE>> >>
         \o (IF Len(body) > 0 THEN << <<"POSTFIELDS", body>> >> ELSE <<>>)
    [] method = "PUT" ->
         << <<"UPLOAD", TRUE>> >>
         \o (IF Len(body) > 0 THEN << <<"POSTFIELDS", body>> >> ELSE <<>>)
    [] method = "DELETE" -> << <<"CUSTOMREQUEST", "DELETE">> >>
    [] OTHER -> << <<"CUSTOMREQUEST", method>> >>
methodSettings(method, body) ==
  CASE method = "GET" -> << <<"HTTPGET", TRUE>> >>
    [] method = "HEAD" -> << <<"NOBODY", TRUE>> >>
    [] method = "POST" ->
         << <<"POST", TRUE>> >>
         \o (IF Len(body) > 0
               THEN << <<"POSTFIELDS", body>>, <<"POSTFIELDSIZE", Len(body)>> >>
               ELSE <<>>)
    [] method = "PUT" ->
         << <<"UPLOAD", TRUE>> >>
         \o (IF Len(body) > 0 THEN << <<"POSTFIELDS", body>> >> ELSE <<>>)
    [] method = "DELETE" -> << <<"CUSTOMREQUEST", "DELETE">> >>
    [] OTHER -> << <<"CUSTOMREQUEST", method>> >>

\* performOptimizedRequest from the URL to the header sink: the Setopt calls of
\* one request, in order
requestSettings(url, method, body, hdrs, proxy) ==
  << <<"URL", url>> >>
  \o methodSettings(method, body)
  \o (IF Len(hdrs) > 0 THEN << <<"HTTPHEADER", hdrs>> >> ELSE <<>>)
  \o << <<"WRITEFUNCTION", "writeDataToBuffer">>, <<"WRITEDATA", "responseBuffer">> >>
  \o (IF proxy # NilProxy THEN << <<"PROXY", proxy>> >> ELSE <<>>)
  \o << <<"HEADERFUNCTION", "writeHeaderToMap">>, <<"HEADERDATA", "responseHeaders">> >>

\* the request body the executor has been handed: the first POSTFIELDSIZE bytes
\* of POSTFIELDS, all of them when no size is set
HandedBody(opts) ==
  IF "POSTFIELDS" \notin DOMAIN opts THEN <<>>
  ELSE IF "POSTFIELDSIZE" \in DOMAIN opts
    THEN SubSeq(opts["POSTFIELDS"], 1, opts["POSTFIELDSIZE"])
    ELSE opts["POSTFIELDS"]

\* the bodies the other collaborators serve: "", "a", "ab", "aba", ...
ServedBodies == {b \in Bodies : \A i \in 1..Len(b) : b[i] = (IF i % 2 = 1 THEN "a" ELSE "b")}

\* the response bodies the executor can deliver to the write callback: none
\* when body retrieval is disabled, the request body from the echo
\* collaborator, any bytes otherwise
DeliveredBodies(opts, url) ==
  IF "NOBODY" \in DOMAIN opts /\ opts["NOBODY"] THEN {<<>>}
  ELSE IF url = "/post" THEN {HandedBody(opts)}
  ELSE ServedBodies

\* the response codes of the executor and http.StatusText (599 has no standard
\* text)
Codes == {200, 404, 599}
StatusText(code) ==
  IF code = 200 THEN "OK" ELSE IF code = 404 THEN "Not Found" ELSE ""

\* the Content-Type values the header callback can have collected, and the
\* results of easy.Getinfo(curl.INFO_CONTENT_TYPE): ok is false for an error, a
\* nil and a value that is no string
CollectedContentTypes == {<<>>, <<"">>, <<"text/html">>, <<"", "text/html">>}
InfoContentTypes ==
  {[ok |-> FALSE, ct |-> ""], [ok |-> TRUE, ct |-> ""], [ok |-> TRUE, ct |-> "text/plain"]}

\* the header callback's mapping when the Content-Type lines held these values
CollectedHeader(values) ==
  IF values = <<>> THEN EmptyHeader ELSE [n \in {"Content-Type"} |-> values]

\* http.Header.Get (the first value of the name, "" without one) and Set
HeaderGet(h, name) == IF name \in DOMAIN h /\ h[name] # <<>> THEN h[name][1] ELSE ""
HeaderSet(h, name, value) ==
  [n \in DOMAIN h \cup {name} |-> IF n = name THEN <<value>> ELSE h[n]]

\* performOptimizedRequest, the two Content-Type fallbacks
contentTypeAlwaysInfo(h, info) ==
  IF info.ok /\ info.ct # "" THEN HeaderSet(h, "Content-Type", info.ct)
  ELSE HeaderSet(h, "Content-Type", "application/json")
contentTypeFallback(h, info) ==
  LET h1 == IF HeaderGet(h, "Content-Type") = "" /\ info.ok /\ info.ct # ""
              THEN HeaderSet(h, "Content-Type", info.ct) ELSE h
  IN IF HeaderGet(h1, "Content-Type") = ""
       THEN HeaderSet(h1, "Content-Type", "application/json") ELSE h1

\* Proto of the http.Response literal: fixed, whatever t.HttpVersion is
responseProtoForced(version) == IF version = 3 THEN "HTTP/2.0" ELSE "HTTP/1.1"
responseProto(version) == "HTTP/1.1"

\* the positions of a goroutine inside configureCurlHandle's defaults
ConfIdle == [call |-> "none", field |-> 0, phase |-> "idle"]

\* ---- initial state --------------------------------------------------------

Init ==
  /\ client \in {[Transport |-> NilT, Timeout |-> 0, initialized |-> FALSE],
                 [Transport |-> T0, Timeout |-> CustomTimeout, initialized |-> FALSE]}
  /\ numTransports = 1
  /\ \E n \in 0..MaxPoolSize : maxPoolSize = [t \in TIds |-> IF t = T0 THEN n ELSE 0]
  /\ poolOnceDone = [t \in TIds |-> FALSE]
  /\ poolInits = [t \in TIds |-> 0]
  /\ chanCap = [t \in TIds |-> 0]
  /\ curlHandles = [t \in TIds |-> <<>>]
  /\ globalOnceDone = FALSE
  /\ globalInits = 0
  /\ numHandles = 0
  /\ hstate = [h \in HIds |-> "none"]
  /\ hcfg = [h \in HIds |-> FALSE]
  /\ hreq = [h \in HIds |-> NoSinks]
  /\ howner = [h \in HIds |-> NilT]
  /\ cleanups = [h \in HIds |-> 0]
  /\ pc = [g \in G |-> "idle"]
  /\ kind = [g \in G |-> "none"]
  /\ req = [g \in G |-> "none"]
  /\ tr = [g \in G |-> NilT]
  /\ easy = [g \in G |-> NilH]
  /\ returns = [g \in G |-> 0]
  /\ resp = [g \in G |-> FALSE]
  /\ performs = [g \in G |-> 0]
  /\ err = [g \in G |-> ""]
  /\ fedLines = <<>>
  /\ headerMap = EmptyHeader
  /\ parsedLF = [done |-> FALSE, header |-> EmptyHeader]
  /\ parsedCRLF = [done |-> FALSE, header |-> EmptyHeader]
  /\ combinedStr = <<>>
  /\ reqHeader = EmptyHeader
  /\ flat = [done |-> FALSE, headers |-> EmptyHeader]
  /\ requestHeaders = <<>>
  /\ rejected = {}
  /\ reported = {}
  /\ callErr = ""
  /\ callPc = "getCurlHandle"
  /\ separated = [done |-> FALSE, resp |-> FALSE, err |-> "", header |-> <<>>, body |-> <<>>]
  /\ request = NoRequest
  /\ local = [body |-> <<>>, responseBuffer |-> NilSlice, responseBodyData |-> NilSlice]
  /\ arrays = <<>>
  /\ handle = NoHandle
  /\ response = NoResponse
  /\ transport = ZeroTransport
  /\ cfgPos = [g \in G |-> ConfIdle]

\* ---- derived state ---------------------------------------------------------

\* goroutine g is between getCurlHandle's return of a handle and the end of
\* the deferred returnCurlHandle: the handle in easy[g] is checked out
Holding(g) == pc[g] \in {"perform", "release", "cleanup"}

\* the handles in the idle set of transport t
Idle(t) == Range(curlHandles[t])

\* handles transport t created / created and not yet destroyed
CreatedOn(t) == {h \in HIds : hstate[h] # "none" /\ howner[h] = t}
LiveOn(t) == {h \in HIds : hstate[h] = "live" /\ howner[h] = t}

\* requests that currently have a handle of transport t checked out
CheckedOut(t) == {g \in G : Holding(g) /\ tr[g] = t}

\* ---- calls ----------------------------------------------------------------

\* goroutines are numbered in the order of their calls
MayCall(g) == pc[g] = "idle" /\ \A f \in 1..(g - 1) : pc[f] # "idle"

\* RoundTrip after body, err = io.ReadAll(req.Body): if err != nil { return nil,
\* fmt.Errorf("failed to read request body: %w", err) }, otherwise on to
\* performOptimizedRequest -> getCurlHandle -> initPool
afterReadAllIgnoresError(ok, onceDone) == IF onceDone THEN "select" ELSE "initPool_slow"
afterReadAll(ok, onceDone) ==
  IF ~ok THEN "done" ELSE IF onceDone THEN "select" ELSE "initPool_slow"

\* Transport.RoundTrip up to performOptimizedRequest -> getCurlHandle -> initPool:
\* the nil checks, header flattening, io.ReadAll(req.Body) (which can fail), and
\* the fast path of t.poolOnce.Do, which reads the done flag without the mutex
RoundTripEntry(g, r, t) ==
  LET e == NilCheck(r) IN
    IF e # ""
      THEN /\ err' = [err EXCEPT ![g] = e]
           /\ pc' = [pc EXCEPT ![g] = "done"]
           /\ tr' = [tr EXCEPT ![g] = NilT]
      ELSE \E ok \in BOOLEAN :
             /\ err' = [err EXCEPT ![g] = IF ok THEN "" ELSE ErrReadBody]
             /\ pc' = [pc EXCEPT ![g] = afterReadAll(ok, poolOnceDone[t])]
             /\ tr' = [tr EXCEPT ![g] = IF ok THEN t ELSE NilT]

\* a goroutine calls T0.RoundTrip(r) directly
CallRoundTrip(g) ==
  /\ MayCall(g)
  /\ kind' = [kind EXCEPT ![g] = "rt"]
  /\ \E r \in {"nil", "nilurl", "ok"} :
       /\ req' = [req EXCEPT ![g] = r]
       /\ RoundTripEntry(g, r, T0)
  /\ UNCHANGED <<fnVars, clientVars, poolVars, globalVars, handleVars, easy, returns, resp, performs>>

\* ---- Client.ensureInitialized (no synchronisation in the code) -------------

\* a goroutine calls Get/Post/PostForm/Head/Do on the shared Client:
\* c.ensureInitialized() starts with if !c.initialized
CallVerb(g) ==
  /\ MayCall(g)
  /\ kind' = [kind EXCEPT ![g] = "verb"]
  /\ req' = [req EXCEPT ![g] = "ok"]
  /\ pc' = [pc EXCEPT ![g] = IF client.initialized THEN "verb_send" ELSE "ens_tr_read"]
  /\ UNCHANGED <<fnVars, clientVars, poolVars, globalVars, handleVars, tr, resultVars>>

\* if c.Transport == nil
EnsTrRead(g) ==
  /\ pc[g] = "ens_tr_read"
  /\ pc' = [pc EXCEPT ![g] = IF client.Transport = NilT THEN "ens_tr_new" ELSE "ens_finish"]
  /\ UNCHANGED <<fnVars, clientVars, poolVars, globalVars, handleVars, callVars, resultVars>>

\* c.Transport = NewTransport()
EnsTrNew(g) ==
  /\ pc[g] = "ens_tr_new"
  /\ numTransports' = numTransports + 1
  /\ maxPoolSize' = [maxPoolSize EXCEPT ![numTransports + 1] = NewTransportPoolSize]
  /\ client' = [client EXCEPT !.Transport = numTransports + 1]
  /\ pc' = [pc EXCEPT ![g] = "ens_finish"]
  /\ UNCHANGED <<fnVars, poolVars, globalVars, handleVars, callVars, resultVars>>

\* if c.Timeout == 0 { c.Timeout = 30 * time.Second }: the timeout it leaves
ensureTimeoutKeep(timeout) == timeout
ensureTimeoutAlways(timeout) == DefaultTimeout
ensureTimeout(timeout) == IF timeout = 0 THEN DefaultTimeout ELSE timeout

\* if c.Timeout == 0 { c.Timeout = 30 * time.Second }; c.initialized = true
EnsFinish(g) ==
  /\ pc[g] = "ens_finish"
  /\ client' = [client EXCEPT !.Timeout = ensureTimeout(@),
                              !.initialized = TRUE]
  /\ pc' = [pc EXCEPT ![g] = "verb_send"]
  /\ UNCHANGED <<fnVars, numTransports, maxPoolSize, poolVars, globalVars, handleVars, callVars, resultVars>>

\* c.Client.Get/Post/...: http.Client reads c.Transport and calls its RoundTrip
VerbSend(g) ==
  /\ pc[g] = "verb_send"
  /\ RoundTripEntry(g, req[g], client.Transport)
  /\ UNCHANGED <<fnVars, clientVars, poolVars, globalVars, handleVars, kind, req,
                 easy, returns, resp, performs>>

\* ---- Transport.initPool: t.poolOnce.Do(...) ----------------------------------

\* Once.Do, slow path: the critical section under the Once's mutex
PoolOnceSlow(g) ==
  /\ pc[g] = "initPool_slow"
  /\ LET t == tr[g] IN
       /\ IF onceShouldRun(poolOnceDone[t])
            THEN /\ maxPoolSize' = [maxPoolSize EXCEPT ![t] = initPoolCap(maxPoolSize[t])]
                 /\ chanCap' = [chanCap EXCEPT ![t] = initPoolCap(maxPoolSize[t])]
                 /\ curlHandles' = [curlHandles EXCEPT ![t] = <<>>]
                 /\ poolInits' = [poolInits EXCEPT ![t] = @ + 1]
            ELSE UNCHANGED <<maxPoolSize, chanCap, curlHandles, poolInits>>
       /\ poolOnceDone' = [poolOnceDone EXCEPT ![t] = TRUE]
  /\ pc' = [pc EXCEPT ![g] = "select"]
  /\ UNCHANGED <<fnVars, client, numTransports, globalVars, handleVars, callVars, resultVars>>

\* ---- Transport.getCurlHandle --------------------------------------------------

\* select { case handle := <-t.curlHandles: return handle; default: ... }
SelectRecv(g) ==
  /\ pc[g] = "select"
  /\ LET t == tr[g]
         h == selectRecv(curlHandles[t]) IN
       IF h # NilH
         THEN /\ curlHandles' = [curlHandles EXCEPT ![t] = chanAfterRecv(@)]
              /\ easy' = [easy EXCEPT ![g] = h]
              /\ pc' = [pc EXCEPT ![g] = "perform"]
         ELSE /\ pc' = [pc EXCEPT ![g] = "initCurl"]
              /\ UNCHANGED <<curlHandles, easy>>
  /\ UNCHANGED <<fnVars, clientVars, poolOnceDone, poolInits, chanCap,
                 globalVars, handleVars, callVars, returns, resp, performs, err>>

\* initCurl: globalInitOnce.Do(func() { curl.GlobalInit(...) }), fast path
GlobalOnceFast(g) ==
  /\ pc[g] = "initCurl"
  /\ pc' = [pc EXCEPT ![g] = IF globalOnceDone THEN "easyInit" ELSE "initCurl_slow"]
  /\ UNCHANGED <<fnVars, clientVars, poolVars, globalVars, handleVars, callVars, resultVars>>

\* initCurl, slow path: the critical section under the Once's mutex
GlobalOnceSlow(g) ==
  /\ pc[g] = "initCurl_slow"
  /\ globalInits' = IF onceShouldRun(globalOnceDone) THEN globalInits + 1 ELSE globalInits
  /\ globalOnceDone' = TRUE
  /\ pc' = [pc EXCEPT ![g] = "easyInit"]
  /\ UNCHANGED <<fnVars, clientVars, poolVars, handleVars, callVars, resultVars>>

\* easy := curl.EasyInit(); if easy == nil { return nil };
\* t.configureCurlHandle(easy); return easy
\* (on nil performOptimizedRequest fails with "failed to get curl handle")
EasyInit(g) ==
  /\ pc[g] = "easyInit"
  /\ \E ok \in BOOLEAN :
       IF ok
         THEN /\ numHandles' = numHandles + 1
              /\ hstate' = [hstate EXCEPT ![numHandles + 1] = "live"]
              /\ hcfg' = [hcfg EXCEPT ![numHandles + 1] = TRUE]
              /\ howner' = [howner EXCEPT ![numHandles + 1] = tr[g]]
              /\ easy' = [easy EXCEPT ![g] = numHandles + 1]
              /\ pc' = [pc EXCEPT ![g] = afterGetHandle(numHandles + 1)]
              /\ UNCHANGED <<err, tr>>
         ELSE /\ err' = [err EXCEPT ![g] = ErrGetHandle]
              /\ pc' = [pc EXCEPT ![g] = afterGetHandle(NilH)]
              /\ tr' = [tr EXCEPT ![g] = NilT]
              /\ UNCHANGED <<numHandles, hstate, hcfg, howner, easy>>
  /\ UNCHANGED <<fnVars, clientVars, poolVars, globalVars, hreq, cleanups, kind, req,
                 returns, resp, performs>>

\* ---- Transport.performOptimizedRequest (after defer t.returnCurlHandle(easy)) ---

\* the request runs on the handle: the Setopt calls for URL, method, headers,
\* sinks and proxy (any of which may be rejected), easy.Perform(),
\* easy.Getinfo(curl.INFO_RESPONSE_CODE), and the assembly of the response
Perform(g) ==
  /\ pc[g] = "perform"
  /\ hreq' = [hreq EXCEPT ![easy[g]] = newSinks(g)]
  /\ \E e \in {ErrSetopt, ErrPerform, ErrGetinfo, ""} :
       /\ err' = [err EXCEPT ![g] = e]
       /\ resp' = [resp EXCEPT ![g] = performResult(e)]
       /\ performs' = [performs EXCEPT ![g] = @ + performCalls(e)]
       /\ pc' = [pc EXCEPT ![g] = returnFrom(e)]
  /\ UNCHANGED <<fnVars, clientVars, poolVars, globalVars, numHandles, hstate, hcfg, howner,
                 cleanups, callVars, easy, returns>>

\* ---- Transport.returnCurlHandle (the deferred call) --------------------------

\* handle.Reset(); t.configureCurlHandle(handle);
\* select { case t.curlHandles <- handle: ; default: (Cleanup follows) }
ReturnCurlHandle(g) ==
  /\ pc[g] = "release"
  /\ hreq' = [hreq EXCEPT ![easy[g]] = handleReset(@)]
  /\ hcfg' = [hcfg EXCEPT ![easy[g]] = TRUE]
  /\ LET t == tr[g] IN
       /\ selectSendReady(curlHandles[t], chanCap[t])
       /\ IF sendTaken(curlHandles[t], chanCap[t])
            THEN /\ curlHandles' = [curlHandles EXCEPT ![t] = Append(@, easy[g])]
                 /\ returns' = [returns EXCEPT ![g] = @ + 1]
                 /\ pc' = [pc EXCEPT ![g] = "done"]
                 /\ easy' = [easy EXCEPT ![g] = NilH]
                 /\ tr' = [tr EXCEPT ![g] = NilT]
            ELSE /\ pc' = [pc EXCEPT ![g] = "cleanup"]
                 /\ UNCHANGED <<curlHandles, returns, easy, tr>>
  /\ UNCHANGED <<fnVars, clientVars, poolOnceDone, poolInits, chanCap, globalVars,
                 numHandles, hstate, howner, cleanups, kind, req, resp, performs, err>>

\* default: handle.Cleanup()
Cleanup(g) ==
  /\ pc[g] = "cleanup"
  /\ hstate' = [hstate EXCEPT ![easy[g]] = cleanupResult]
  /\ cleanups' = [cleanups EXCEPT ![easy[g]] = @ + 1]
  /\ returns' = [returns EXCEPT ![g] = @ + 1]
  /\ pc' = [pc EXCEPT ![g] = "done"]
  /\ easy' = [easy EXCEPT ![g] = NilH]
  /\ tr' = [tr EXCEPT ![g] = NilT]
  /\ UNCHANGED <<fnVars, clientVars, poolVars, globalVars, numHandles, hcfg, hreq, howner,
                 kind, req, resp, performs, err>>

\* ---- response headers -------------------------------------------------------

\* the native layer passes one more raw header line to the callback
WriteHeader ==
  /\ ~parsedLF.done /\ ~parsedCRLF.done
  /\ \E n \in 0..(MaxFed - FedBytes(fedLines) - 1) :
       \E line \in [1..n -> LineChar] :
         /\ fedLines' = Append(fedLines, line)
         /\ headerMap' = writeHeaderToMap(headerMap, line)
  /\ UNCHANGED <<parsedLF, parsedCRLF, splitVars, flattenVars, optionVars, transportVars, transferVars, configVars>>

\* the same lines arrive as one block with bare-LF line ends and are parsed
ParseHeadersLF ==
  /\ ~parsedLF.done
  /\ parsedLF' = [done |-> TRUE, header |-> parseHeaders(Block(fedLines, <<"\n">>))]
  /\ UNCHANGED <<fedLines, headerMap, parsedCRLF, splitVars, flattenVars, optionVars, transportVars, transferVars, configVars>>

\* the same lines arrive as one block with CRLF line ends and are parsed
ParseHeadersCRLF ==
  /\ ~parsedCRLF.done
  /\ parsedCRLF' = [done |-> TRUE, header |-> parseHeaders(Block(fedLines, <<"\r", "\n">>))]
  /\ UNCHANGED <<fedLines, headerMap, parsedLF, splitVars, flattenVars, optionVars, transportVars, transferVars, configVars>>

\* ---- the combined response (headers and body in one sink) -------------------

\* the write callback stores one more byte of the response
WriteData ==
  /\ ~separated.done
  /\ Len(combinedStr) < MaxBlob
  /\ \E c \in BlobChar : combinedStr' = Append(combinedStr, c)
  /\ UNCHANGED <<separated, headerVars, flattenVars, optionVars, transportVars, transferVars, configVars>>

\* after the perform: the stored bytes are split into header part and body
SeparateResponse ==
  /\ ~separated.done
  /\ separated' = separateResponse(combinedStr)
  /\ UNCHANGED <<combinedStr, headerVars, flattenVars, optionVars, transportVars, transferVars, configVars>>

\* ---- request headers: flattening ----------------------------------------------

\* the caller puts a header on the request: a name with no value yet
\* (req.Header[name] = nil) or one more value for a name (req.Header.Add)
AddRequestHeader ==
  /\ ~flat.done
  /\ \E name \in HeaderNames :
       \/ /\ name \notin DOMAIN reqHeader
          /\ reqHeader' = [n \in DOMAIN reqHeader \cup {name} |->
                             IF n = name THEN <<>> ELSE reqHeader[n]]
       \/ /\ name \in DOMAIN reqHeader
          /\ Len(reqHeader[name]) < MaxValues
          /\ \E v \in HeaderValues :
               reqHeader' = [reqHeader EXCEPT ![name] = Append(@, v)]
  /\ UNCHANGED <<flat, requestHeaders, headerVars, splitVars, optionVars, transportVars, transferVars, configVars>>

\* RoundTrip: headers := make(map[string]string); for name, values := range
\* req.Header { if len(values) > 0 { headers[name] = values[0] } }.
\* The request can be sent again: every call flattens anew.
FlattenHeaders ==
  /\ flat' = [done |-> TRUE, headers |-> flattenHeaders(reqHeader)]
  /\ requestHeaders' = <<>>
  /\ UNCHANGED <<reqHeader, headerVars, splitVars, optionVars, transportVars, transferVars, configVars>>

\* performOptimizedRequest: for name, value := range headers { requestHeaders =
\* append(requestHeaders, fmt.Sprintf("%s: %s", name, value)) }; the order of a
\* range over a map is not fixed
BuildRequestHeaders ==
  /\ flat.done
  /\ \E name \in DOMAIN flat.headers :
       /\ \A i \in 1..Len(requestHeaders) : requestHeaders[i][1] # name
       /\ requestHeaders' = Append(requestHeaders, Entry(name, flat.headers[name]))
  /\ UNCHANGED <<reqHeader, flat, headerVars, splitVars, optionVars, transportVars, transferVars, configVars>>

\* ---- one call, option by option ------------------------------------------------

\* getCurlHandle on an empty pool: a new handle, which rejects some of the
\* options, is configured
ConfigureNewHandle ==
  /\ callPc = "getCurlHandle"
  /\ \E rej \in SUBSET (PersistentOptions \cup Range(RequestOptions)) :
       /\ rejected' = rej
       /\ reported' = PersistentOptions \cap rej
       /\ callErr' = configureCurlHandleError(rej)
  /\ callPc' = "setopt"
  /\ UNCHANGED <<headerVars, splitVars, flattenVars, transportVars, transferVars, configVars>>

\* the Setopt calls of the request, up to the first one the handle rejects
ApplyRequestOptions ==
  /\ callPc = "setopt"
  /\ LET o == FirstRejected(rejected) IN
       IF o # ""
         THEN /\ reported' = reported \cup {o}
              /\ callErr' = OptionError(o)
              /\ callPc' = "release"
         ELSE /\ callPc' = "perform"
              /\ UNCHANGED <<reported, callErr>>
  /\ UNCHANGED <<rejected, headerVars, splitVars, flattenVars, transportVars, transferVars, configVars>>

\* easy.Perform()
PerformOnHandle ==
  /\ callPc = "perform"
  /\ \E ok \in BOOLEAN :
       IF ok THEN UNCHANGED <<reported, callErr>>
       ELSE /\ reported' = reported \cup {"PERFORM"}
            /\ callErr' = OptionError("PERFORM")
  /\ callPc' = "release"
  /\ UNCHANGED <<rejected, headerVars, splitVars, flattenVars, transportVars, transferVars, configVars>>

\* the deferred returnCurlHandle: handle.Reset(); t.configureCurlHandle(handle)
ReconfigureOnRelease ==
  /\ callPc = "release"
  /\ reported' = reported \cup (PersistentOptions \cap rejected)
  /\ callPc' = "returned"
  /\ UNCHANGED <<rejected, callErr, headerVars, splitVars, flattenVars, transportVars, transferVars, configVars>>

\* ---- one call traced from the request to the response ---------------------------

\* the variables no step of the traced call touches
untracedVars ==
  <<fedLines, parsedLF, parsedCRLF, splitVars, flattenVars, rejected, reported,
    cfgPos, transportVars>>

\* the caller takes NewTransport() and sets the HTTP version to force
UseNewTransport ==
  /\ request = NoRequest /\ handle = NoHandle /\ transport = ZeroTransport
  /\ \E v \in 0..3 : transport' = [NewTransport EXCEPT !.HttpVersion = v]
  /\ UNCHANGED <<untracedVars, headerMap, callErr, callPc, request, local, arrays,
                 handle, response>>

\* the caller builds a request and calls RoundTrip(req)
NewRequest ==
  /\ request = NoRequest /\ callPc = "getCurlHandle"
  /\ \E method \in Methods, url \in URLs, b \in {NilBody} \cup {Stream(d) : d \in Bodies} :
       request' = [Method |-> method, URL |-> url, Body |-> b]
  /\ callPc' = "readAll"
  /\ UNCHANGED <<untracedVars, headerMap, callErr, local, arrays, handle, response,
                 transport>>

\* RoundTrip: if req.Body != nil { body, err = io.ReadAll(req.Body); if err != nil
\* { return nil, fmt.Errorf("failed to read request body: %w", err) } }
ReadBody ==
  /\ callPc = "readAll"
  /\ IF ~request.Body.present
       THEN /\ callPc' = "getCurlHandle"
            /\ UNCHANGED <<request, local, callErr>>
       ELSE \E ok \in BOOLEAN :
              IF ok
                THEN /\ local' = [local EXCEPT !.body = ReadAll(request.Body)]
                     /\ request' = [request EXCEPT !.Body.pos = Len(request.Body.data)]
                     /\ callPc' = "getCurlHandle"
                     /\ UNCHANGED callErr
                ELSE /\ callErr' = ErrReadBody
                     /\ callPc' = "returned"
                     /\ UNCHANGED <<request, local>>
  /\ UNCHANGED <<untracedVars, headerMap, arrays, handle, response, transport>>

\* getCurlHandle, default branch: t.configureCurlHandle(easy) on a new handle:
\* the defaults are written into the Transport and the options are set
ConfigureFresh ==
  /\ transport' = setDefaults(transport)
  /\ handle' = [opts |-> configureCurlHandle(EmptyOpts, setDefaults(transport)),
                info |-> NoInfo, uses |-> 0]

\* returnCurlHandle: handle.Reset(); t.configureCurlHandle(handle)
ResetConfigure ==
  /\ transport' = setDefaults(transport)
  /\ handle' = [handle EXCEPT
                  !.opts = configureCurlHandle(resetOptions(@), setDefaults(transport))]

\* performOptimizedRequest: easy := t.getCurlHandle() on an empty pool
AcquireHandle ==
  /\ callPc = "getCurlHandle" /\ request # NoRequest /\ handle = NoHandle
  /\ ConfigureFresh
  /\ callPc' = "setopt"
  /\ UNCHANGED <<untracedVars, headerMap, callErr, request, local, arrays, response>>

\* performOptimizedRequest from "Set the URL" to the header sink: the options of
\* the request are set, the response buffer and the header map are created
SetRequestOptions ==
  /\ callPc = "setopt" /\ request # NoRequest
  /\ handle' = [handle EXCEPT
                  !.opts = SetoptAll(@, requestSettings(request.URL, request.Method,
                                                        local.body, requestHeaders,
                                                        transport.Proxy)),
                  !.uses = @ + 1]
  /\ arrays' = Append(arrays, NewArray(InitialCap))
  /\ local' = [local EXCEPT !.responseBuffer = [arr |-> Len(arrays) + 1, len |-> 0]]
  /\ headerMap' = EmptyHeader
  /\ callPc' = "perform"
  /\ UNCHANGED <<untracedVars, callErr, request, response, transport>>

\* easy.Perform(): the executor runs the transfer, feeding the header callback
\* and the write callback, or fails
PerformTransfer ==
  /\ callPc = "perform" /\ request # NoRequest
  /\ \E ok \in BOOLEAN :
       IF ok
         THEN \E code \in Codes, cts \in CollectedContentTypes, ict \in InfoContentTypes,
                 data \in DeliveredBodies(handle.opts, request.URL) :
                LET w == bufferWrite(arrays, local.responseBuffer, data) IN
                  /\ headerMap' = CollectedHeader(cts)
                  /\ arrays' = w.arrays
                  /\ local' = [local EXCEPT !.responseBuffer = w.buffer]
                  /\ handle' = [handle EXCEPT !.info = [code |-> code, contentType |-> ict]]
                  /\ callPc' = "getinfo"
                  /\ UNCHANGED callErr
         ELSE /\ callErr' = ErrPerform
              /\ callPc' = "release"
              /\ UNCHANGED <<headerMap, arrays, local, handle>>
  /\ UNCHANGED <<untracedVars, request, response, transport>>

\* performOptimizedRequest after the perform: the response code, the bytes of
\* the buffer, the Content-Type fallbacks, and the http.Response literal
AssembleResponse ==
  /\ callPc = "getinfo"
  /\ \E ok \in BOOLEAN :
       IF ok
         THEN LET responseBodyData == bufferBytes(local.responseBuffer)
                  responseHeaders == contentTypeFallback(headerMap, handle.info.contentType)
                  responseCode == handle.info.code
              IN /\ local' = [local EXCEPT !.responseBodyData = responseBodyData]
                 /\ headerMap' = responseHeaders
                 /\ response' = [Status |-> <<responseCode, " ", StatusText(responseCode)>>,
                                 StatusCode |-> responseCode,
                                 Proto |-> responseProto(transport.HttpVersion),
                                 ProtoMajor |-> 1,
                                 ProtoMinor |-> 1,
                                 Header |-> responseHeaders,
                                 Body |-> responseBodyData,
                                 ContentLength |-> responseBodyData.len,
                                 Request |-> NoRequest]
                 /\ UNCHANGED callErr
         ELSE /\ callErr' = ErrGetinfo
              /\ UNCHANGED <<local, headerMap, response>>
  /\ callPc' = "release"
  /\ UNCHANGED <<untracedVars, request, arrays, handle, transport>>

\* the deferred returnCurlHandle, then RoundTrip: if err != nil { return nil,
\* err }; resp.Request = req; return resp, nil
ReturnResponse ==
  /\ callPc = "release" /\ request # NoRequest
  /\ ResetConfigure
  /\ response' = IF response # NoResponse THEN [response EXCEPT !.Request = request]
                 ELSE response
  /\ callPc' = "returned"
  /\ UNCHANGED <<untracedVars, headerMap, callErr, request, local, arrays>>

\* ---- the response buffer, used through its three methods -------------------------

\* &responseBuffer{buffer: bytes.NewBuffer(make([]byte, 0, 4096))}
NewResponseBuffer ==
  /\ local.responseBuffer = NilSlice
  /\ arrays' = Append(arrays, NewArray(InitialCap))
  /\ local' = [local EXCEPT !.responseBuffer = [arr |-> Len(arrays) + 1, len |-> 0]]
  /\ UNCHANGED <<untracedVars, headerMap, callErr, callPc, request, handle, response,
                 transport>>

\* rb.Write(p)
BufferWrite ==
  /\ local.responseBuffer # NilSlice
  /\ \E p \in Bodies :
       /\ p # <<>>
       /\ local.responseBuffer.len + Len(p) <= MaxBody
       /\ LET w == bufferWrite(arrays, local.responseBuffer, p) IN
            /\ arrays' = w.arrays
            /\ local' = [local EXCEPT !.responseBuffer = w.buffer]
  /\ UNCHANGED <<untracedVars, headerMap, callErr, callPc, request, handle, response,
                 transport>>

\* responseBodyData := rb.Bytes()
BufferBytes ==
  /\ local.responseBuffer # NilSlice
  /\ local' = [local EXCEPT !.responseBodyData = bufferBytes(local.responseBuffer)]
  /\ UNCHANGED <<untracedVars, headerMap, callErr, callPc, request, arrays, handle,
                 response, transport>>

\* rb.Reset()
BufferReset ==
  /\ local.responseBuffer # NilSlice
  /\ local' = [local EXCEPT !.responseBuffer = bufferReset(@)]
  /\ UNCHANGED <<untracedVars, headerMap, callErr, callPc, request, arrays, handle,
                 response, transport>>

\* ---- the configuration of a handle over its life in the pool -----------------------

\* the values a caller gives the fields of a Transport before its first use
TransportValues ==
  [ImpersonateTarget : {"", "firefox102"}, Proxy : {NilProxy, "http://proxy:8080"},
   UseDefaultHeaders : {TRUE},
   MaxConnects : {0, 1}, MaxAgeConn : {0, 1}, MaxLifetimeConn : {0, 1},
   ConnectTimeoutMs : {0, 1}, TimeoutMs : {0, 1}, DNSCacheTimeout : {0, 1},
   BufferSize : {0, 1}, EnableTCPFastOpen : BOOLEAN, HttpVersion : {0, 2}]

\* t := &Transport{...} with the fields of the caller's choice
SetTransportFields ==
  /\ handle = NoHandle /\ callPc = "getCurlHandle" /\ transport = ZeroTransport
  /\ transport' \in TransportValues
  /\ UNCHANGED <<untracedVars, headerMap, callErr, callPc, request, local, arrays,
                 handle, response>>

\* t := NewTransport()
CallNewTransport ==
  /\ handle = NoHandle /\ callPc = "getCurlHandle" /\ transport = ZeroTransport
  /\ transport' = NewTransport
  /\ UNCHANGED <<untracedVars, headerMap, callErr, callPc, request, local, arrays,
                 handle, response>>

\* getCurlHandle on the empty pool: a new handle is configured
ConfigureFreshHandle ==
  /\ handle = NoHandle /\ callPc = "getCurlHandle"
  /\ ConfigureFresh
  /\ callPc' = "setopt"
  /\ UNCHANGED <<untracedVars, headerMap, callErr, request, local, arrays, response>>

\* a request uses the handle: its options are set (and the transfer runs)
UseHandle ==
  /\ handle # NoHandle /\ callPc = "setopt"
  /\ handle.uses < MaxCycles
  /\ \E method \in Methods, body \in {<<>>, <<"a">>} :
       handle' = [handle EXCEPT
                    !.opts = SetoptAll(@, requestSettings("/get", method, body,
                                                          <<Entry("User-Agent", "test-agent/1.0")>>,
                                                          transport.Proxy)),
                    !.uses = @ + 1]
  /\ callPc' = "release"
  /\ UNCHANGED <<untracedVars, headerMap, callErr, request, local, arrays, response,
                 transport>>

\* returnCurlHandle: the handle is reset, configured again and put into the pool
ResetAndConfigure ==
  /\ handle # NoHandle /\ callPc = "release"
  /\ ResetConfigure
  /\ callPc' = "pooled"
  /\ UNCHANGED <<untracedVars, headerMap, callErr, request, local, arrays, response>>

\* getCurlHandle receives the handle from the pool: it is used as it is
ReuseHandle ==
  /\ handle # NoHandle /\ callPc = "pooled"
  /\ callPc' = "setopt"
  /\ UNCHANGED <<untracedVars, headerMap, callErr, request, local, arrays, handle,
                 response, transport>>

\* ---- configureCurlHandle, field by field, in concurrent requests -------------------

\* the variables no step of the concurrent configuration touches
unconfiguredVars == <<headerVars, splitVars, flattenVars, optionVars, transferVars, transportVars>>

ConfDone == [call |-> "none", field |-> 0, phase |-> "done"]

\* the position after the if statement of field i
AfterField(call, i) ==
  IF i < Len(DefaultedFields) THEN [call |-> call, field |-> i + 1, phase |-> "read"]
  ELSE [call |-> call, field |-> 0, phase |-> "apply"]

\* the Transport the goroutines share is built before any of them starts:
\* &Transport{}, NewClientWithTarget(target)'s Transport, or NewTransport()
ShareTransport ==
  /\ \A g \in G : cfgPos[g] = ConfIdle
  /\ transport' \in {ZeroTransport, TargetTransport("firefox102"), NewTransport}
  /\ UNCHANGED <<unconfiguredVars, cfgPos>>

\* a request finds the pool empty, creates a handle and enters configureCurlHandle
ConfStart(g) ==
  /\ cfgPos[g] = ConfIdle
  /\ cfgPos' = [cfgPos EXCEPT ![g] = [call |-> "create", field |-> 1, phase |-> "read"]]
  /\ UNCHANGED <<unconfiguredVars, transport>>

\* if t.F == zero
ConfRead(g) ==
  /\ cfgPos[g].phase = "read"
  /\ LET i == cfgPos[g].field
         f == DefaultedFields[i] IN
       cfgPos' = [cfgPos EXCEPT ![g] = IF transport[f] = ZeroOf(f)
                                         THEN [@ EXCEPT !.phase = "write"]
                                         ELSE AfterField(@.call, i)]
  /\ UNCHANGED <<unconfiguredVars, transport>>

\* t.F = default
ConfWrite(g) ==
  /\ cfgPos[g].phase = "write"
  /\ LET i == cfgPos[g].field
         f == DefaultedFields[i] IN
       /\ transport' = [transport EXCEPT ![f] = DefaultOf(f)]
       /\ cfgPos' = [cfgPos EXCEPT ![g] = AfterField(@.call, i)]
  /\ UNCHANGED unconfiguredVars

\* the Setopt calls, which read the fields; after the configuration of the new
\* handle the request runs and returnCurlHandle configures the handle again
ConfApply(g) ==
  /\ cfgPos[g].phase = "apply"
  /\ cfgPos' = [cfgPos EXCEPT ![g] = IF @.call = "create"
                                       THEN [call |-> "release", field |-> 1, phase |-> "read"]
                                       ELSE ConfDone]
  /\ UNCHANGED <<unconfiguredVars, transport>>

\* ---- the constructed clients ------------------------------------------------------

\* var DefaultClient = &Client{Client: http.Client{Transport: NewTransport(),
\* Timeout: 30 * time.Second}, initialized: true}: its Transport is the first
\* one the program constructs
DefaultClient == [Transport |-> T0, Timeout |-> DefaultTimeout, initialized |-> TRUE]

\* NewClient() and NewClientWithTarget(target): the Client literal both return,
\* around the Transport t they construct
NewClientNoTimeout(t) == [Transport |-> t, Timeout |-> 0, initialized |-> TRUE]
NewClient(t) == [Transport |-> t, Timeout |-> DefaultTimeout, initialized |-> TRUE]

\* the package is loaded (DefaultClient's NewTransport() has maxPoolSize 10) and
\* the program shares DefaultClient itself
UseDefaultClient ==
  /\ ~client.initialized /\ \A g \in G : pc[g] = "idle"
  /\ client' = DefaultClient
  /\ maxPoolSize' = [maxPoolSize EXCEPT ![T0] = NewTransportPoolSize]
  /\ transport' = NewTransport
  /\ UNCHANGED <<headerVars, splitVars, flattenVars, optionVars, transferVars, cfgPos,
                 numTransports, poolVars, globalVars, handleVars, pc, callVars, resultVars>>

\* the program shares c := NewClient()
CallNewClient ==
  /\ ~client.initialized /\ \A g \in G : pc[g] = "idle"
  /\ numTransports' = numTransports + 1
  /\ client' = NewClient(numTransports + 1)
  /\ maxPoolSize' = [maxPoolSize EXCEPT ![T0] = NewTransportPoolSize,
                                        ![numTransports + 1] = NewTransportPoolSize]
  /\ transport' = NewTransport
  /\ UNCHANGED <<headerVars, splitVars, flattenVars, optionVars, transferVars, cfgPos,
                 poolVars, globalVars, handleVars, pc, callVars, resultVars>>

\* the program shares c := NewClientWithTarget("firefox102"): the Transport
\* literal leaves maxPoolSize 0
CallNewClientWithTarget ==
  /\ ~client.initialized /\ \A g \in G : pc[g] = "idle"
  /\ numTransports' = numTransports + 1
  /\ client' = NewClient(numTransports + 1)
  /\ maxPoolSize' = [maxPoolSize EXCEPT ![T0] = NewTransportPoolSize,
                                        ![numTransports + 1] = 0]
  /\ transport' = TargetTransport("firefox102")
  /\ UNCHANGED <<headerVars, splitVars, flattenVars, optionVars, transferVars, cfgPos,
                 poolVars, globalVars, handleVars, pc, callVars, resultVars>>

\* the package-level Get/Post/PostForm/Head/Do: return DefaultClient.Get(url),
\* ...; DefaultClient is initialized, so ensureInitialized changes nothing and
\* http.Client calls the RoundTrip of DefaultClient's Transport
CallPackage(g) ==
  /\ MayCall(g)
  /\ kind' = [kind EXCEPT ![g] = "pkg"]
  /\ req' = [req EXCEPT ![g] = "ok"]
  /\ RoundTripEntry(g, "ok", DefaultClient.Transport)
  /\ UNCHANGED <<fnVars, clientVars, poolVars, globalVars, handleVars, easy, returns, resp, performs>>

\* ---- the header blocks of one perform -------------------------------------------

\* the raw lines the executor passes to the header callback during one perform
\* that receives several responses (an interim or redirect response, then the
\* final one): a status line, header lines of one name, the blank line that
\* ends a block
BlockLines ==
  {<<"HTTP/", "\r", "\n">>, <<"x", ":", "x", "\r", "\n">>,
   <<"x", ":", " ", "X", "\r", "\n">>, <<"\r", "\n">>}

\* the executor passes the next line to writeHeaderToMap, whose userdata is the
\* one responseHeaders map of the call
WriteBlockLine ==
  /\ Len(fedLines) < MaxLines
  /\ \E line \in BlockLines :
       /\ fedLines' = Append(fedLines, line)
       /\ headerMap' = writeHeaderToMap(headerMap, line)
  /\ UNCHANGED <<parsedLF, parsedCRLF, splitVars, flattenVars, optionVars, transportVars,
                 transferVars, configVars>>

\* ---- specifications ---------------------------------------------------------

Step(g) ==
  \/ EnsTrRead(g) \/ EnsTrNew(g) \/ EnsFinish(g) \/ VerbSend(g)
  \/ PoolOnceSlow(g)
  \/ SelectRecv(g)
  \/ GlobalOnceFast(g) \/ GlobalOnceSlow(g)
  \/ EasyInit(g)
  \/ Perform(g)
  \/ ReturnCurlHandle(g) \/ Cleanup(g)

Next == \E g \in G : CallVerb(g) \/ CallRoundTrip(g) \/ Step(g)

Spec == Init /\ [][Next]_vars

\* the requests run strictly one after another: a call starts only when every
\* earlier call has returned.  A sequential run never finds the idle set full
\* at release (C6_SequentialReuse checks that no request reaches the default
\* branch), so Cleanup has no step here.
Quiet == \A g \in G : pc[g] \in {"idle", "done"}

SeqStep(g) ==
  \/ EnsTrRead(g) \/ EnsTrNew(g) \/ EnsFinish(g) \/ VerbSend(g)
  \/ PoolOnceSlow(g)
  \/ SelectRecv(g)
  \/ GlobalOnceFast(g) \/ GlobalOnceSlow(g)
  \/ EasyInit(g)
  \/ Perform(g)
  \/ ReturnCurlHandle(g)

SeqNext == \E g \in G : (Quiet /\ (CallVerb(g) \/ CallRoundTrip(g))) \/ SeqStep(g)

SpecSeq == Init /\ [][SeqNext]_vars

\* a burst of direct RoundTrip calls on the one Transport T0, and every
\* goroutine that can take a step eventually takes one (the Go scheduler
\* starves no runnable goroutine, and every perform call returns)
BurstStep(g) ==
  \/ PoolOnceSlow(g)
  \/ SelectRecv(g)
  \/ GlobalOnceFast(g) \/ GlobalOnceSlow(g)
  \/ EasyInit(g)
  \/ Perform(g)
  \/ ReturnCurlHandle(g) \/ Cleanup(g)

BurstNext == \E g \in G : CallRoundTrip(g) \/ BurstStep(g)

SpecBurst == Init /\ [][BurstNext]_vars /\ \A g \in G : WF_vars(BurstStep(g))

\* the response headers of one transfer: collected line by line by the
\* callback, or parsed from the block of the same lines
HeadersNext == WriteHeader \/ ParseHeadersLF \/ ParseHeadersCRLF

\* no request is in flight on the Transport meanwhile
InitQuiet == Init /\ client.Transport = T0 /\ maxPoolSize[T0] = 0

SpecHeaders == InitQuiet /\ [][HeadersNext]_vars

\* the combined response of one transfer is stored and then split
SplitNext == WriteData \/ SeparateResponse

SpecSplit == InitQuiet /\ [][SplitNext]_vars

\* the headers of one request are set by the caller, flattened and listed
FlattenNext == AddRequestHeader \/ FlattenHeaders \/ BuildRequestHeaders

SpecFlatten == InitQuiet /\ [][FlattenNext]_vars

\* one call on a fresh handle, traced option by option
OptionsNext ==
  ConfigureNewHandle \/ ApplyRequestOptions \/ PerformOnHandle \/ ReconfigureOnRelease

SpecOptions == InitQuiet /\ [][OptionsNext]_vars

\* one RoundTrip call on a new Transport, from the request to the response
TransferNext ==
  \/ UseNewTransport \/ NewRequest \/ ReadBody \/ AcquireHandle \/ SetRequestOptions
  \/ PerformTransfer \/ AssembleResponse \/ ReturnResponse

SpecTransfer == InitQuiet /\ [][TransferNext]_vars

\* a response buffer written, read and reset in any order
BufferNext == NewResponseBuffer \/ BufferWrite \/ BufferBytes \/ BufferReset

SpecBuffer == InitQuiet /\ [][BufferNext]_vars

\* one handle of a Transport with fields of the caller's choice: created, used
\* by a request, released, reused
ConfigNext ==
  \/ SetTransportFields \/ CallNewTransport \/ ConfigureFreshHandle
  \/ UseHandle \/ ResetAndConfigure \/ ReuseHandle

SpecConfig == InitQuiet /\ [][ConfigNext]_vars

\* concurrent requests on one Transport, each configuring its handle when it
\* creates it and when it releases it
RaceNext ==
  ShareTransport \/ \E g \in G : ConfStart(g) \/ ConfRead(g) \/ ConfWrite(g) \/ ConfApply(g)

SpecRace == InitQuiet /\ [][RaceNext]_vars

\* the calls on a constructed client and the package-level calls, one after
\* another: ensureInitialized finds initialized set and does nothing, and as in
\* SpecSeq no release finds the idle set full
ClientsStep(g) ==
  \/ VerbSend(g)
  \/ PoolOnceSlow(g)
  \/ SelectRecv(g)
  \/ GlobalOnceFast(g) \/ GlobalOnceSlow(g)
  \/ EasyInit(g)
  \/ Perform(g)
  \/ ReturnCurlHandle(g)

ClientsNext ==
  \/ UseDefaultClient \/ CallNewClient \/ CallNewClientWithTarget
  \/ \E g \in G :
       (Quiet /\ client.initialized /\ (CallVerb(g) \/ CallPackage(g))) \/ ClientsStep(g)

SpecClients == InitQuiet /\ [][ClientsNext]_vars

\* the header lines of one perform, block after block
SpecBlocks == InitQuiet /\ [][WriteBlockLine]_vars

\* ---- claims -----------------------------------------------------------------

\* C1: under any interleaving of concurrent RoundTrip calls, no handle is held
\* by two in-flight requests at once, and a checked-out handle is in no idle set
C1_ExclusiveHandle ==
  /\ \A g1, g2 \in G :
       (g1 # g2 /\ Holding(g1) /\ Holding(g2)) => easy[g1] # easy[g2]
  /\ \A g \in G, t \in TIds : Holding(g) => easy[g] \notin Idle(t)
  /\ \A t \in TIds : Cardinality(Idle(t)) = Len(curlHandles[t])

\* two requests hold handles of the same Transport at the same time
C1_Witness ==
  \E g1, g2 \in G :
    /\ g1 # g2 /\ Holding(g1) /\ Holding(g2)
    /\ tr[g1] = tr[g2]
    /\ easy[g1] # NilH /\ easy[g2] # NilH

\* the outcomes of a RoundTrip call that got a handle from getCurlHandle
HandleOutcomes == {"", ErrSetopt, ErrPerform, ErrGetinfo}

\* C2: every RoundTrip call that obtained a handle has released it exactly once
\* when it returns, on success, on a rejected option, on a failed perform and on
\* a failed status-code query; a call that obtained none releases nothing
C2_ReleasedExactlyOnce ==
  \A g \in G :
    /\ returns[g] <= 1
    /\ Holding(g) => returns[g] = 0
    /\ pc[g] = "done" =>
         /\ err[g] \in HandleOutcomes => returns[g] = 1
         /\ err[g] \notin HandleOutcomes => returns[g] = 0
         /\ easy[g] = NilH

\* one call left through a rejected option and one through a failed perform
C2_Witness ==
  \E g1, g2 \in G :
    /\ pc[g1] = "done" /\ err[g1] = ErrSetopt /\ returns[g1] = 1
    /\ pc[g2] = "done" /\ err[g2] = ErrPerform /\ returns[g2] = 1

\* the positions inside getCurlHandle
AcquirePcs == {"initPool_slow", "select", "initCurl", "initCurl_slow", "easyInit"}

\* getCurlHandle's select step, as C3 describes it: an idle handle when there
\* is one, the creation branch otherwise, whatever is checked out
C3_SelectStep(g) ==
  (pc[g] = "select" /\ pc'[g] # "select") =>
     IF curlHandles[tr[g]] # <<>>
       THEN /\ easy'[g] \in Idle(tr[g])
            /\ easy'[g] \notin Range(curlHandles'[tr[g]])
            /\ pc'[g] = "perform"
            /\ numHandles' = numHandles
       ELSE pc'[g] = "initCurl"

\* the creation branch hands back a new, live, configured handle
C3_Created(g) ==
  /\ numHandles' = numHandles + 1
  /\ easy'[g] = numHandles'
  /\ hstate[easy'[g]] = "none" /\ hstate'[easy'[g]] = "live"
  /\ hcfg'[easy'[g]]
  /\ pc'[g] = "perform"

C4_ReleaseNeverBlocks ==
  /\ [](\A t \in TIds : Len(curlHandles[t]) <= chanCap[t])
  /\ [](\A g \in G : pc[g] \in {"release", "cleanup"} =>
            ENABLED (ReturnCurlHandle(g) \/ Cleanup(g)))
  /\ [][\A g \in G :
          /\ (pc[g] = "release" /\ pc'[g] # "release") =>
               IF Len(curlHandles[tr[g]]) < chanCap[tr[g]]
                 THEN /\ curlHandles'[tr[g]] = Append(curlHandles[tr[g]], easy[g])
                      /\ hstate'[easy[g]] = "live"
                      /\ pc'[g] = "done"
                 ELSE /\ curlHandles' = curlHandles
                      /\ pc'[g] = "cleanup"
          /\ (pc[g] = "cleanup" /\ pc'[g] # "cleanup") =>
               /\ hstate'[easy[g]] = "destroyed"
               /\ curlHandles' = curlHandles
               /\ pc'[g] = "done"]_vars

\* a handle was destroyed because the idle set was full, and one was pooled
C4_Witness ==
  \E h \in HIds, t \in TIds :
    /\ hstate[h] = "destroyed" /\ howner[h] = t
    /\ chanCap[t] > 0 /\ Len(curlHandles[t]) = chanCap[t]

\* C5: the live handles of a Transport number at most its pool capacity plus
\* the handles currently checked out from it
C5_LiveHandlesBounded ==
  \A t \in TIds :
    Cardinality(LiveOn(t)) <= chanCap[t] + Cardinality(CheckedOut(t))

\* the bound is met: a full idle set and a handle checked out
C5_Witness ==
  \E t \in TIds :
    /\ chanCap[t] > 0 /\ Len(curlHandles[t]) = chanCap[t]
    /\ CheckedOut(t) # {}
    /\ Cardinality(LiveOn(t)) = chanCap[t] + Cardinality(CheckedOut(t))

\* C6: when the requests run strictly one after another, a Transport creates
\* exactly one handle: every acquire after the first gets the handle the
\* previous request released, and the creation counter stays at 1
C6_SequentialReuse ==
  /\ [](\A t \in TIds : Cardinality(CreatedOn(t)) <= 1)
  /\ [](\A g \in G : pc[g] # "cleanup" /\ (Holding(g) => CreatedOn(tr[g]) = {easy[g]}))
  /\ [][\A g \in G :
          (pc[g] = "select" /\ pc'[g] # "select" /\ CreatedOn(tr[g]) # {}) =>
             /\ curlHandles[tr[g]] = <<easy'[g]>>
             /\ CreatedOn(tr[g]) = {easy'[g]}
             /\ numHandles' = numHandles]_vars

\* the last of the sequential requests on T0 holds the one handle T0 created,
\* which every earlier request used and released
C6_Witness ==
  /\ \A g \in G \ {NumReqs} : pc[g] = "done" /\ returns[g] = 1 /\ kind[g] = "rt"
  /\ Holding(NumReqs) /\ tr[NumReqs] = T0
  /\ CreatedOn(T0) = {easy[NumReqs]}
  /\ numHandles = 1

\* C7: a burst of N concurrent requests on a pool of capacity C < N completes:
\* every request that was started returns, and no more handles are created
\* than requests were started
C7_BurstCompletes ==
  /\ \A g \in G : (pc[g] # "idle") ~> (pc[g] = "done")
  /\ [](numHandles <= Cardinality({g \in G : pc[g] # "idle"}))

\* all N requests ran on T0 at once, each with a handle of its own, with C < N
C7_Witness ==
  /\ chanCap[T0] > 0 /\ chanCap[T0] < NumReqs
  /\ \A g \in G : pc[g] = "done" /\ returns[g] = 1
  /\ CreatedOn(T0) = HIds
  /\ Cardinality(LiveOn(T0)) = chanCap[T0]

\* C8: concurrent first verbs on a zero-value Client initialise it exactly
\* once: one default Transport is created and assigned, and all the calls use it
C8_ClientInitOnce ==
  /\ numTransports <= 2
  /\ \A g1, g2 \in G :
       (kind[g1] = "verb" /\ kind[g2] = "verb" /\ tr[g1] # NilT /\ tr[g2] # NilT)
         => tr[g1] = tr[g2]

\* C9: curl.GlobalInit runs exactly once per process and has completed before
\* any handle is created, whichever goroutines and Transports get there first
C9_GlobalInitOnce ==
  /\ globalInits <= 1
  /\ globalOnceDone <=> globalInits = 1
  /\ numHandles > 0 => globalInits = 1
  /\ \A g \in G : pc[g] = "easyInit" => globalInits = 1

\* two goroutines on different Transports both found the gate open; one has
\* gone through it and the other is about to
C9_Witness ==
  \E g1, g2 \in G :
    /\ pc[g1] = "initCurl_slow" /\ pc[g2] = "easyInit"
    /\ tr[g1] # tr[g2]
    /\ globalInits = 1

\* C10: RoundTrip(nil) and RoundTrip of a request with a nil URL fail with the
\* exact messages and leave the pool alone: nothing is acquired, created or
\* released and the pool is not initialised
C10_NilRequestRejected ==
  [][\A g \in G :
       /\ (pc[g] = "idle" /\ pc'[g] # "idle" /\ req'[g] \in {"nil", "nilurl"}) =>
            /\ pc'[g] = "done"
            /\ err'[g] = (IF req'[g] = "nil" THEN "request cannot be nil"
                                            ELSE "request URL cannot be nil")
            /\ ~resp'[g] /\ returns'[g] = 0 /\ easy'[g] = NilH
            /\ UNCHANGED <<poolVars, globalVars, handleVars>>
       /\ pc[g] = "done" => UNCHANGED <<pc[g], err[g], resp[g], performs[g], returns[g], easy[g]>>]_vars

\* both rejections happened and the pool of T0 was never initialised
C10_Witness ==
  \E g1, g2 \in G :
    /\ pc[g1] = "done" /\ req[g1] = "nil" /\ err[g1] = ErrNilRequest
    /\ pc[g2] = "done" /\ req[g2] = "nilurl" /\ err[g2] = ErrNilURL
    /\ ~poolOnceDone[T0] /\ chanCap[T0] = 0 /\ numHandles = 0

\* C11: every RoundTrip call returns exactly one of a response and an error:
\* a returned call has a response iff its error is nil, so no response
\* accompanies an error and no call returns neither
C11_ResponseXorError ==
  \A g \in G : pc[g] = "done" => (resp[g] <=> err[g] = "")

\* one call returned a response, another failed after the perform had already
\* filled the response sinks (the status-code query failed) and returned none
C11_Witness ==
  \E g1, g2 \in G :
    /\ pc[g1] = "done" /\ resp[g1] /\ err[g1] = ""
    /\ pc[g2] = "done" /\ ~resp[g2] /\ err[g2] = ErrGetinfo /\ performs[g2] = 1

\* C12: a RoundTrip call invokes the native perform at most once; a failed
\* perform goes straight to the release of the handle, and the call returns
\* the error "request failed: ..." with the handle released once
C12_PerformAtMostOnce ==
  /\ [](\A g \in G : performs[g] <= 1)
  /\ [](\A g \in G : (pc[g] = "done" /\ err[g] = ErrPerform) =>
            performs[g] = 1 /\ returns[g] = 1 /\ ~resp[g])
  /\ [][\A g \in G :
          (pc[g] = "perform" /\ pc'[g] # "perform" /\ err'[g] = ErrPerform) =>
             pc'[g] = "release" /\ performs'[g] = 1]_vars

\* a call whose perform failed has returned
C12_Witness ==
  \E g \in G :
    pc[g] = "done" /\ err[g] = ErrPerform /\ performs[g] = 1 /\ returns[g] = 1

\* C13: every error the handle reports while an option is applied (the
\* persistent configuration at creation and at release included) or while the
\* request executes is the error returned to the caller; none is dropped
C13_NoErrorDropped ==
  callPc = "returned" =>
    /\ reported # {} => callErr # ""
    /\ \A o \in reported \ PersistentOptions : callErr = OptionError(o)

\* C14: when the idle set was empty and curl.EasyInit returns nil, the request
\* fails at once with "failed to get curl handle": it returns in that very
\* step, perform is never invoked, and nothing is put into the idle set,
\* created or destroyed, by that step or for that call
C14_NoHandleFailsAtOnce ==
  /\ [](\A g \in G : (pc[g] = "done" /\ err[g] = ErrGetHandle) =>
            performs[g] = 0 /\ returns[g] = 0 /\ ~resp[g])
  /\ [][\A g \in G :
          (pc[g] = "easyInit" /\ pc'[g] # "easyInit" /\ easy'[g] = NilH) =>
             /\ pc'[g] = "done"
             /\ err'[g] = "failed to get curl handle"
             /\ performs'[g] = 0
             /\ curlHandles' = curlHandles
             /\ hstate' = hstate /\ cleanups' = cleanups
             /\ numHandles' = numHandles]_vars

\* a call failed for want of a handle while another call's handle is in the
\* idle set of the same pool, untouched
C14_Witness ==
  \E g1, g2 \in G :
    /\ pc[g1] = "done" /\ err[g1] = ErrGetHandle /\ kind[g1] = "rt"
    /\ pc[g2] = "done" /\ returns[g2] = 1 /\ kind[g2] = "rt"
    /\ Len(curlHandles[T0]) = 1

\* ---- the header collector, as the claims describe it ----

\* a line without its surrounding white space
Stripped(s) ==
  LET idx == {i \in 1..Len(s) : ~IsSpace(s[i])} IN
    IF idx = {} THEN <<>>
    ELSE SubSeq(s, CHOOSE i \in idx : \A j \in idx : i <= j,
                   CHOOSE i \in idx : \A j \in idx : j <= i)

\* blank lines and lines beginning with "HTTP/"
Skipped(l) == Stripped(l) = <<>> \/ Stripped(l)[1] = "HTTP/"

Colons(l) == {i \in 1..Len(Stripped(l)) : Stripped(l)[i] = ":"}
FirstColon(l) == CHOOSE i \in Colons(l) : \A j \in Colons(l) : i <= j

\* the lines that hold a header, with the name and the value they hold
HeaderLines(lines) == {i \in 1..Len(lines) : ~Skipped(lines[i]) /\ Colons(lines[i]) # {}}
NameOf(l) == CanonicalMIMEHeaderKey(Stripped(SubSeq(Stripped(l), 1, FirstColon(l) - 1)))
ValueOf(l) == Stripped(SubSeq(Stripped(l), FirstColon(l) + 1, Len(Stripped(l))))

\* the k-th smallest member of a set of positions
Nth(I, k) == CHOOSE i \in I : Cardinality({j \in I : j < i}) = k - 1

\* every header line's value is in the mapping under its canonical name, the
\* values of one name in arrival order, and nothing else is in the mapping
CollectedInOrder ==
  /\ DOMAIN headerMap = {NameOf(fedLines[i]) : i \in HeaderLines(fedLines)}
  /\ \A name \in DOMAIN headerMap :
       LET I == {i \in HeaderLines(fedLines) : NameOf(fedLines[i]) = name} IN
         headerMap[name] = [k \in 1..Cardinality(I) |-> ValueOf(fedLines[Nth(I, k)])]

\* the number of values in a mapping
RECURSIVE NumValues(_)
NumValues(h) ==
  IF DOMAIN h = {} THEN 0
  ELSE LET n == CHOOSE n \in DOMAIN h : TRUE IN
         Len(h[n]) + NumValues([m \in DOMAIN h \ {n} |-> h[m]])

\* C15 as stated: every line that is neither blank nor a status line is split
\* at its first colon and adds one value to the mapping
C15_Original ==
  /\ CollectedInOrder
  /\ NumValues(headerMap) = Cardinality({i \in 1..Len(fedLines) : ~Skipped(fedLines[i])})

\* C15: for every sequence of raw header lines fed to the collector, blank
\* lines, lines beginning with "HTTP/" and lines without a colon add nothing;
\* every other line is trimmed and split at its first colon into a trimmed
\* name and a trimmed value, appended under the canonical name, so repeated
\* names keep all their values in arrival order
C15_HeaderCollector ==
  /\ CollectedInOrder
  /\ NumValues(headerMap) = Cardinality(HeaderLines(fedLines))

\* one name has received two different values, kept in arrival order
C15_Witness ==
  \E name \in DOMAIN headerMap :
    /\ Len(headerMap[name]) = 2
    /\ headerMap[name][1] # headerMap[name][2]
    /\ Len(fedLines) = 2

\* C16: parsing empty input gives an empty mapping, and so does a collector or
\* a parse that has received only blank lines and status lines
C16_EmptyInputEmptyMap ==
  (\A i \in 1..Len(fedLines) : Skipped(fedLines[i])) =>
     /\ headerMap = EmptyHeader
     /\ parsedLF.done => parsedLF.header = EmptyHeader
     /\ parsedCRLF.done => parsedCRLF.header = EmptyHeader

\* a status line and a blank line were collected and parsed
C16_Witness ==
  /\ Len(fedLines) = 2
  /\ \E i \in 1..2 : Stripped(fedLines[i]) # <<>> /\ Skipped(fedLines[i])
  /\ \E i \in 1..2 : Stripped(fedLines[i]) = <<>>
  /\ parsedLF.done /\ parsedLF.header = EmptyHeader /\ headerMap = EmptyHeader

\* C17: a header block parsed with bare-LF line ends gives the same mapping as
\* the same block parsed with CRLF line ends
C17_LFSameAsCRLF ==
  (parsedLF.done /\ parsedCRLF.done) => parsedLF.header = parsedCRLF.header

\* a block with a header whose value is not empty was parsed both ways
C17_Witness ==
  /\ parsedLF.done /\ parsedCRLF.done
  /\ \E name \in DOMAIN parsedCRLF.header : parsedCRLF.header[name] = <<<<"x">>>>

\* C18: the split of a combined header+body blob is at the first occurrence of
\* CRLF CRLF; only a blob without CRLF CRLF is split at its first LF LF; a blob
\* with neither fails with the parse error and gives no response.  The header
\* part is everything before the separator, the body everything after it.
C18_SplitAtFirstSeparator ==
  separated.done =>
    LET cr == Occurrences(combinedStr, CRLFCRLF)
        lf == Occurrences(combinedStr, LFLF)
        n == Len(combinedStr)
    IN IF cr # {}
         THEN \E i \in cr :
                /\ \A j \in cr : i <= j
                /\ separated.err = "" /\ separated.resp
                /\ separated.header = SubSeq(combinedStr, 1, i - 1)
                /\ separated.body = SubSeq(combinedStr, i + 4, n)
       ELSE IF lf # {}
         THEN \E i \in lf :
                /\ \A j \in lf : i <= j
                /\ separated.err = "" /\ separated.resp
                /\ separated.header = SubSeq(combinedStr, 1, i - 1)
                /\ separated.body = SubSeq(combinedStr, i + 2, n)
       ELSE separated.err = "failed to separate headers and body in response" /\ ~separated.resp

\* a blob with an LF LF ahead of its CRLF CRLF was split at the CRLF CRLF
C18_Witness ==
  /\ separated.done /\ separated.resp
  /\ Occurrences(combinedStr, CRLFCRLF) # {}
  /\ \E i \in Occurrences(combinedStr, LFLF) :
       \A j \in Occurrences(combinedStr, CRLFCRLF) : i < j

\* the list handed to the handle is complete: every flattened name is in it
ListComplete == Len(requestHeaders) = Cardinality(DOMAIN flat.headers)

\* C19: flattening gives the executor exactly one "Name: value" entry for each
\* header name of the request that has at least one value; the value is one of
\* that name's values, never a merge of them, and the same one on every call;
\* names with an empty value list are omitted
C19_OneEntryPerName ==
  /\ [](flat.done =>
          /\ DOMAIN flat.headers = {n \in DOMAIN reqHeader : reqHeader[n] # <<>>}
          /\ \A n \in DOMAIN flat.headers : flat.headers[n] \in Range(reqHeader[n]))
  /\ [](\A i \in 1..Len(requestHeaders) :
          /\ \E n \in DOMAIN flat.headers : requestHeaders[i] = <<n, ": ", flat.headers[n]>>
          /\ \A j \in 1..Len(requestHeaders) :
               requestHeaders[i][1] = requestHeaders[j][1] => i = j)
  /\ []((flat.done /\ ListComplete) =>
          {requestHeaders[i][1] : i \in 1..Len(requestHeaders)} =
            {n \in DOMAIN reqHeader : reqHeader[n] # <<>>})
  /\ [][(flat.done /\ flat'.done /\ reqHeader' = reqHeader) => flat'.headers = flat.headers]_vars

\* a request with a name of two different values and a name without values:
\* the complete list holds one entry for the first and none for the second
C19_Witness ==
  /\ flat.done /\ ListComplete
  /\ Len(requestHeaders) = 1
  /\ \E n, m \in DOMAIN reqHeader :
       /\ Len(reqHeader[n]) = 2 /\ reqHeader[n][1] # reqHeader[n][2]
       /\ reqHeader[m] = <<>>

\* C20: a name with several values is flattened to the last of its values
C20_LastWriteWins ==
  flat.done =>
    \A n \in DOMAIN flat.headers : flat.headers[n] = reqHeader[n][Len(reqHeader[n])]

\* C26: the response buffer and the header collector of a request are its own:
\* no two handles ever reference the same sinks, the sinks a handle references
\* are those of the request that holds it, and a handle in an idle set
\* references none
C26_SinksNeverShared ==
  /\ \A h1, h2 \in HIds :
       (h1 # h2 /\ hreq[h1] # NoSinks /\ hreq[h2] # NoSinks) => hreq[h1] # hreq[h2]
  /\ \A h \in HIds :
       hreq[h] # NoSinks => (Holding(hreq[h]) /\ easy[hreq[h]] = h)
  /\ \A t \in TIds : \A h \in Idle(t) : hreq[h] = NoSinks

\* two requests on the same Transport have their sinks wired at the same time
C26_Witness ==
  \E g1, g2 \in G :
    /\ g1 # g2
    /\ pc[g1] = "release" /\ pc[g2] = "release"
    /\ tr[g1] = tr[g2]
    /\ hreq[easy[g1]] = g1 /\ hreq[easy[g2]] = g2

\* the positions of a verb call inside ensureInitialized, or before the call
BeforeInitialized == {"idle", "ens_tr_read", "ens_tr_new", "ens_finish"}

\* a verb call has gone through ensureInitialized
PastInitialized(g) == kind[g] = "verb" /\ pc[g] \notin BeforeInitialized

\* C30: once the first verb call on a zero-value Client has gone through
\* ensureInitialized, the Client is initialised with a Transport made by
\* NewTransport() and a timeout of 30 s; the call's RoundTrip runs on that
\* Transport; and calls made after it change neither the Transport nor the
\* timeout
C30_ZeroValueClient ==
  /\ [](\A g \in G :
          (PastInitialized(g) /\ client.Transport # T0) =>
             /\ client.initialized
             /\ client.Transport = 2 /\ numTransports = 2
             /\ maxPoolSize[client.Transport] = NewTransportPoolSize
             /\ client.Timeout = 30)
  /\ [][\A g \in G :
          (pc[g] = "verb_send" /\ pc'[g] \notin {"verb_send", "done"}) =>
             tr'[g] = client.Transport /\ tr'[g] # NilT]_vars
  /\ [][(\E g \in G : PastInitialized(g)) =>
          (client' = client /\ numTransports' = numTransports)]_vars

\* the zero-value Client has served a first verb call and a later one holds a
\* handle of the Transport the first call created
C30_Witness ==
  /\ client = [Transport |-> 2, Timeout |-> DefaultTimeout, initialized |-> TRUE]
  /\ kind[1] = "verb" /\ pc[1] = "done" /\ returns[1] = 1
  /\ kind[NumReqs] = "verb" /\ Holding(NumReqs) /\ tr[NumReqs] = 2

\* ---- the traced call, as the claims describe it ----

\* option k of the handle is set to v
HasOpt(opts, k, v) == k \in DOMAIN opts /\ opts[k] = v

\* the body bytes B of the request (none for a request without body)
RequestBytes == IF request.Body.present THEN request.Body.data ELSE <<>>

\* the per-request options are on the handle: from the last Setopt of the
\* request to the reset at release
OptionsApplied == request # NoRequest /\ callPc \in {"perform", "getinfo", "release"}

\* C21: the method-specific options on the handle: HEAD sets NOBODY (and the
\* assembled response then has an empty body); POST sets POST and PUT sets
\* UPLOAD, each with POSTFIELDS = body when the body is non-empty and without
\* POSTFIELDS otherwise; a POST with a body sets POSTFIELDSIZE to the byte
\* length; DELETE and every other method set CUSTOMREQUEST to the method name
C21_MethodSetup ==
  /\ OptionsApplied =>
       LET o == handle.opts
           m == request.Method
           b == RequestBytes
       IN /\ m = "HEAD" => HasOpt(o, "NOBODY", TRUE)
          /\ m = "POST" => HasOpt(o, "POST", TRUE)
          /\ m = "PUT" => HasOpt(o, "UPLOAD", TRUE)
          /\ (m \in {"POST", "PUT"} /\ b # <<>>) => HasOpt(o, "POSTFIELDS", b)
          /\ (m \in {"POST", "PUT"} /\ b = <<>>) => "POSTFIELDS" \notin DOMAIN o
          /\ (m = "POST" /\ b # <<>>) => HasOpt(o, "POSTFIELDSIZE", Len(b))
          /\ m \notin {"GET", "HEAD", "POST", "PUT"} => HasOpt(o, "CUSTOMREQUEST", m)
          /\ m \in {"GET", "HEAD", "POST", "PUT"} => "CUSTOMREQUEST" \notin DOMAIN o
  /\ (request # NoRequest /\ response # NoResponse /\ request.Method = "HEAD") =>
       response.ContentLength = 0 /\ SliceBytes(arrays, response.Body) = <<>>

\* a POST with a body of MaxBody bytes has been performed
C21_Witness ==
  /\ OptionsApplied /\ callPc = "getinfo"
  /\ request.Method = "POST" /\ Len(RequestBytes) = MaxBody
  /\ handle.opts["POSTFIELDSIZE"] = MaxBody

\* C29: the whole request body B is in memory before a handle is acquired (the
\* stream is drained and body = B), the POST body handed to the executor is
\* exactly B, and what the echo collaborator sends back is B
C29_PostRoundTrip ==
  /\ (request # NoRequest /\ handle # NoHandle) =>
       /\ local.body = RequestBytes
       /\ request.Body.present => request.Body.pos = Len(request.Body.data)
  /\ (OptionsApplied /\ request.Method = "POST") => HandedBody(handle.opts) = RequestBytes
  /\ (request # NoRequest /\ request.Method = "POST" /\ request.URL = "/post"
        /\ response # NoResponse) =>
       SliceBytes(arrays, response.Body) = RequestBytes

\* a POST of MaxBody bytes to the echo collaborator has returned its response
C29_Witness ==
  /\ request # NoRequest /\ callPc = "returned" /\ response # NoResponse
  /\ request.Method = "POST" /\ request.URL = "/post"
  /\ Len(RequestBytes) = MaxBody
  /\ SliceBytes(arrays, response.Body) = RequestBytes

\* the step that assembles the response
Assembles == callPc = "getinfo" /\ response' # NoResponse

\* the Content-Type of the assembled response is v, and it is not empty
ContentTypeIs(v) ==
  /\ "Content-Type" \in DOMAIN response'.Header
  /\ response'.Header["Content-Type"] = v
  /\ v # <<>> /\ v[1] # ""

\* the executor's content-type metadata, when it is a non-empty string, else
\* the fixed default
FallbackContentType ==
  IF handle.info.contentType.ok /\ handle.info.contentType.ct # ""
    THEN <<handle.info.contentType.ct>>
    ELSE <<"application/json">>

\* C22 as stated: the assembled response has a non-empty Content-Type: the
\* collected one if any was collected, else the executor's metadata if it is a
\* non-empty string, else the default
C22_Original ==
  [][Assembles =>
       IF "Content-Type" \in DOMAIN headerMap
         THEN ContentTypeIs(headerMap["Content-Type"])
         ELSE ContentTypeIs(FallbackContentType)]_vars

\* C22: the assembled response has a non-empty Content-Type: the collected
\* values when the first of them is not empty, else the executor's metadata
\* if it is a non-empty string, else the default "application/json"
C22_ContentTypeOrder ==
  [][Assembles =>
       IF HeaderGet(headerMap, "Content-Type") # ""
         THEN ContentTypeIs(headerMap["Content-Type"])
         ELSE ContentTypeIs(FallbackContentType)]_vars

\* a response kept the collected Content-Type although the executor's metadata
\* named another
C22_Witness ==
  /\ response # NoResponse
  /\ response.Header = CollectedHeader(<<"text/html">>)
  /\ handle.info.contentType = [ok |-> TRUE, ct |-> "text/plain"]

\* C23: every assembled response has Proto "HTTP/1.1", major 1, minor 1,
\* whatever t.HttpVersion forces; StatusCode is the executor's response code
\* and Status is "<code> <StatusText(code)>"; ContentLength is the number of
\* bytes the buffer captured and the body reads back those bytes; and the
\* response RoundTrip returns has Request set to the request it was passed
C23_AssembledResponse ==
  (request # NoRequest /\ response # NoResponse) =>
     /\ response.Proto = "HTTP/1.1" /\ response.ProtoMajor = 1 /\ response.ProtoMinor = 1
     /\ response.StatusCode = handle.info.code
     /\ response.Status = <<handle.info.code, " ", StatusText(handle.info.code)>>
     /\ response.ContentLength = local.responseBuffer.len
     /\ response.ContentLength = Len(SliceBytes(arrays, response.Body))
     /\ SliceBytes(arrays, response.Body) = SliceBytes(arrays, local.responseBuffer)
     /\ callPc = "returned" => response.Request = request
     /\ callErr = ""

\* a Transport forcing HTTP/2 returned a response of MaxBody bytes with a code
\* that has no standard text
C23_Witness ==
  /\ request # NoRequest /\ response # NoResponse /\ callPc = "returned"
  /\ transport.HttpVersion = 3
  /\ response.Status = <<599, " ", "">>
  /\ response.ContentLength = MaxBody
  /\ response.Request = request

\* C27: the byte sequence Bytes() returned is not changed by any later Write or
\* Reset on the same buffer
C27_StableSnapshot ==
  [][(local.responseBodyData # NilSlice /\ local'.responseBodyData = local.responseBodyData) =>
       SliceBytes(arrays', local.responseBodyData) = SliceBytes(arrays, local.responseBodyData)]_vars

\* ---- the configuration of a handle, as the claims describe it ----

\* the defaults the claim lists, and the option each field is applied as
ClaimedDefaults ==
  [ImpersonateTarget |-> "chrome136", ConnectTimeoutMs |-> 5000, TimeoutMs |-> 30000,
   DNSCacheTimeout |-> 300, BufferSize |-> 16384, MaxConnects |-> 50,
   MaxAgeConn |-> 300, MaxLifetimeConn |-> 600]
OptionOfField ==
  [ImpersonateTarget |-> "IMPERSONATE", ConnectTimeoutMs |-> "CONNECTTIMEOUT_MS",
   TimeoutMs |-> "TIMEOUT_MS", DNSCacheTimeout |-> "DNS_CACHE_TIMEOUT",
   BufferSize |-> "BUFFERSIZE", MaxConnects |-> "MAXCONNECTS",
   MaxAgeConn |-> "MAXAGE_CONN", MaxLifetimeConn |-> "MAXLIFETIME_CONN"]

\* a step in which configureCurlHandle runs: on a new handle or at release
Configures ==
  /\ callPc \in {"getCurlHandle", "release"}
  /\ callPc' \in {"setopt", "pooled"}

\* field f is on the handle as its option
FieldApplied(f) ==
  IF f = "ImpersonateTarget"
    THEN handle'.opts["IMPERSONATE"][1] = transport'[f]
    ELSE handle'.opts[OptionOfField[f]] = transport'[f]

\* C24: whenever configuration is applied to a handle, each zero-valued field
\* of the Transport gets its default and each other field keeps its value, and
\* the resulting values are the ones set on the handle; NewTransport() carries
\* exactly the defaults
C24_DefaultsInjected ==
  /\ [][Configures =>
          \A f \in DOMAIN ClaimedDefaults :
            /\ transport'[f] = (IF transport[f] = ZeroOf(f) THEN ClaimedDefaults[f]
                                ELSE transport[f])
            /\ FieldApplied(f)]_vars
  /\ [](\A f \in DOMAIN ClaimedDefaults : NewTransport[f] = ClaimedDefaults[f])

\* a handle configured from a Transport with one field set by the caller and
\* another left zero
C24_Witness ==
  /\ handle # NoHandle
  /\ transport.MaxConnects = 1 /\ HasOpt(handle.opts, "MAXCONNECTS", 1)
  /\ transport.TimeoutMs = 30000 /\ HasOpt(handle.opts, "TIMEOUT_MS", 30000)
  /\ transport.ImpersonateTarget = "chrome136"

\* the options performOptimizedRequest sets for one request
PerRequestOptions ==
  {"URL", "HTTPGET", "NOBODY", "POST", "POSTFIELDS", "POSTFIELDSIZE", "UPLOAD",
   "CUSTOMREQUEST", "HTTPHEADER", "WRITEFUNCTION", "WRITEDATA", "PROXY",
   "HEADERFUNCTION", "HEADERDATA"}

\* C25: a handle that was released, after any number of uses, has the option
\* state of a new handle configured from the same Transport: no option of a
\* request is left on it
C25_ReconfigureIdempotent ==
  (handle # NoHandle /\ callPc \in {"pooled", "setopt"}) =>
     /\ handle.opts = configureCurlHandle(EmptyOpts, setDefaults(transport))
     /\ DOMAIN handle.opts \cap PerRequestOptions = {}

\* a handle of a Transport with proxy and TCP fast open is back in the pool
\* after MaxCycles requests
C25_Witness ==
  /\ handle # NoHandle /\ callPc = "pooled" /\ handle.uses = MaxCycles
  /\ transport.Proxy # NilProxy /\ transport.EnableTCPFastOpen
  /\ HasOpt(handle.opts, "TCP_FASTOPEN", TRUE)

\* ---- the Transport's fields under concurrent requests ----

\* goroutine g is inside configureCurlHandle, where the fields are read
Configuring(g) == cfgPos[g].phase \in {"read", "write", "apply"}

\* C28: no request writes a configuration field of the Transport while another
\* request is in a place where it reads or writes the fields
C28_NoFieldWrite ==
  \A g1, g2 \in G :
    (g1 # g2 /\ cfgPos[g1].phase = "write") => ~Configuring(g2)

\* ---- the constructed clients, as the claims describe them ----

C32_IdleHandlesClean ==
  /\ \A t \in TIds : \A h \in Idle(t) : hcfg[h] /\ hreq[h] = NoSinks
  /\ \A g \in G : pc[g] = "perform" => (hcfg[easy[g]] /\ hreq[easy[g]] = NoSinks)

\* a request holds, before its own setup, the one handle an earlier request
\* performed on and released
C32_Witness ==
  \E g1, g2 \in G :
    /\ pc[g1] = "done" /\ performs[g1] = 1 /\ returns[g1] = 1
    /\ pc[g2] = "perform" /\ numHandles = 1 /\ easy[g2] = 1

\* C33: the capacity bounds the idle handles only: an idle set never holds
\* more than capacity handles, and a request that finds the idle set empty
\* creates its handle however many handles of the Transport are checked out,
\* so the handles in use and the handles created can exceed the capacity
C33_CapacityBoundsIdleOnly ==
  /\ [](\A t \in TIds : Cardinality(Idle(t)) <= chanCap[t])
  /\ [][\A g \in G :
          (/\ pc[g] = "easyInit" /\ pc'[g] # "easyInit"
           /\ Cardinality(CheckedOut(tr[g])) >= chanCap[tr[g]]) =>
             \/ /\ pc'[g] = "perform" /\ numHandles' = numHandles + 1
                /\ Cardinality({f \in G : Holding(f)' /\ tr'[f] = tr[g]})
                     = Cardinality(CheckedOut(tr[g])) + 1
             \/ err'[g] = ErrGetHandle]_vars

\* N = 2 requests hold a handle each on a pool of capacity C = 1: more handles
\* are in use and were created than the capacity, and none is idle
C33_Witness ==
  \E t \in TIds :
    /\ chanCap[t] = 1 /\ curlHandles[t] = <<>>
    /\ Cardinality(CheckedOut(t)) = 2
    /\ Cardinality(CreatedOn(t)) = 2
    /\ \A g \in CheckedOut(t) : pc[g] = "perform"

\* C34: a destroyed handle is in no idle set and with no request, no handle is
\* destroyed twice or twice in the idle sets, and of two releases that compete
\* for the last free slot the first fills the idle set, so that the other,
\* finding it full, destroys its handle
C34_DestroyedStaysOut ==
  /\ [](/\ \A t \in TIds : \A i \in 1..Len(curlHandles[t]) :
             /\ hstate[curlHandles[t][i]] = "live" /\ howner[curlHandles[t][i]] = t
             /\ \A j \in 1..(i - 1) : curlHandles[t][j] # curlHandles[t][i]
        /\ \A g \in G : (Holding(g) /\ pc[g] # "cleanup") => hstate[easy[g]] = "live"
        /\ \A h \in HIds : cleanups[h] <= 1 /\ (hstate[h] = "destroyed" <=> cleanups[h] = 1))
  /\ [][\A g \in G :
          /\ (pc[g] = "release" /\ pc'[g] # "release") =>
               IF Len(curlHandles[tr[g]]) < chanCap[tr[g]]
                 THEN /\ curlHandles'[tr[g]] = Append(curlHandles[tr[g]], easy[g])
                      /\ pc'[g] = "done"
                      /\ \A f \in G \ {g} :
                           (pc[f] = "release" /\ tr[f] = tr[g]) =>
                              (pc'[f] = "release" /\ easy[f] # easy[g])
                 ELSE pc'[g] = "cleanup" /\ curlHandles' = curlHandles
          /\ (pc[g] = "cleanup" /\ pc'[g] # "cleanup") =>
               (hstate'[easy[g]] = "destroyed" /\ curlHandles' = curlHandles)]_vars

\* two releases competed for the one slot: both requests have returned, one
\* handle is idle and the other was destroyed, once
C34_Witness ==
  \E g1, g2 \in G, t \in TIds :
    /\ g1 # g2 /\ pc[g1] = "done" /\ pc[g2] = "done"
    /\ returns[g1] = 1 /\ returns[g2] = 1
    /\ chanCap[t] = 1 /\ Len(curlHandles[t]) = 1
    /\ \E h \in HIds : howner[h] = t /\ hstate[h] = "destroyed" /\ cleanups[h] = 1

\* the requests in flight on transport t: inside its RoundTrip
InFlight(t) == {g \in G : tr[g] = t /\ pc[g] \notin {"idle", "done"}}

\* C35: whenever no request is in flight on a Transport, each handle it
\* created is idle in its pool or destroyed: created minus destroyed is the
\* idle count, which is at most the capacity
C35_NoHandleLost ==
  \A t \in TIds :
    InFlight(t) = {} =>
      /\ LiveOn(t) = Idle(t)
      /\ Cardinality(CreatedOn(t)) - Cardinality(CreatedOn(t) \ LiveOn(t))
           = Len(curlHandles[t])
      /\ \A h \in CreatedOn(t) \ LiveOn(t) : hstate[h] = "destroyed" /\ cleanups[h] = 1
      /\ Len(curlHandles[t]) <= chanCap[t]

\* a failed and a successful request have both returned: of the two handles
\* the Transport created one is idle and one destroyed
C35_Witness ==
  /\ \A g \in G : pc[g] = "done"
  /\ \E g1, g2 \in G : err[g1] = ErrPerform /\ returns[g1] = 1 /\ resp[g2]
  /\ \E t \in TIds :
       /\ Cardinality(CreatedOn(t)) = 2 /\ Len(curlHandles[t]) = 1
       /\ Cardinality(LiveOn(t)) = 1

\* the positions of a request after t.initPool() has returned
PastInitPool == {"select", "initCurl", "initCurl_slow", "easyInit", "perform", "release", "cleanup"}

\* C36: the pool of a Transport is made once, by the first acquire, with the
\* capacity 200 when maxPoolSize is 0 and maxPoolSize otherwise (10 after
\* NewTransport()), every request past initPool finds it made, and the
\* capacity never changes afterwards
C36_PoolInitOnce ==
  /\ [](/\ \A t \in TIds :
             /\ poolInits[t] <= 1 /\ (poolOnceDone[t] => poolInits[t] = 1)
             /\ (poolInits[t] = 0) <=> (chanCap[t] = 0)
             /\ (t # T0 /\ poolInits[t] = 1) => chanCap[t] = 10
        /\ \A g \in G : pc[g] \in PastInitPool => poolInits[tr[g]] = 1)
  /\ [][\A t \in TIds :
          chanCap'[t] # chanCap[t] =>
            /\ poolInits[t] = 0 /\ poolInits'[t] = 1
            /\ chanCap'[t] = (IF maxPoolSize[t] = 0 THEN 200 ELSE maxPoolSize[t])]_vars

\* two first acquires overlap on a Transport built with pool size 0: one has
\* made the pool of 200 while the other is still entering initPool
C36_Witness ==
  \E g1, g2 \in G :
    /\ g1 # g2 /\ tr[g1] = T0 /\ tr[g2] = T0
    /\ pc[g1] = "initPool_slow" /\ pc[g2] \in PastInitPool
    /\ poolInits[T0] = 1 /\ chanCap[T0] = 200

\* ---- the lazily initialised client, continued ----

\* C37: lazy initialisation never replaces the Transport the caller set (T0)
\* and never overwrites a Timeout that is not zero; a Timeout changes only from
\* zero to 30 s, and no Transport is constructed for a client that has one
C37_CallerFieldsKept ==
  [][/\ client.Transport = T0 => (client'.Transport = T0 /\ numTransports' = numTransports)
     /\ client.Timeout # 0 => client'.Timeout = client.Timeout
     /\ client'.Timeout # client.Timeout => (client.Timeout = 0 /\ client'.Timeout = 30)
     /\ client'.Transport # client.Transport => client.Transport # T0]_vars

\* a verb has returned a response on the client the caller gave a Transport
\* and a timeout of its own, and the lazy initialisation has run
C37_Witness ==
  /\ client = [Transport |-> T0, Timeout |-> CustomTimeout, initialized |-> TRUE]
  /\ numTransports = 1
  /\ \E g \in G : kind[g] = "verb" /\ pc[g] = "done" /\ resp[g]

\* ---- errors before the pool ----

\* C38: a call whose request body cannot be read returns at once with the
\* error "failed to read request body" and no response: the pool, the handles
\* and the native library are left as they were, the call holds no handle,
\* and nothing is performed or released for it, then or later
C38_ReadFailureBeforePool ==
  /\ [][\A g \in G :
          (err'[g] = "failed to read request body" /\ err[g] # err'[g]) =>
             /\ pc'[g] = "done" /\ ~resp'[g]
             /\ easy'[g] = NilH /\ performs'[g] = 0 /\ returns'[g] = 0
             /\ UNCHANGED <<poolVars, globalVars, handleVars>>]_vars
  /\ [](\A g \in G :
          err[g] = "failed to read request body" =>
            (pc[g] = "done" /\ ~resp[g] /\ easy[g] = NilH /\ performs[g] = 0 /\ returns[g] = 0))

\* a read failure was returned while another request's handle lay in the idle
\* set that the failed call left alone
C38_Witness ==
  \E g1, g2 \in G :
    /\ pc[g1] = "done" /\ resp[g1] /\ returns[g1] = 1
    /\ pc[g2] = "done" /\ err[g2] = ErrReadBody
    /\ numHandles = 1 /\ \E t \in TIds : curlHandles[t] = <<1>>

\* ---- the header collector over several blocks ----

\* the fed lines that are status lines
StatusLines == {i \in 1..Len(fedLines) : Stripped(fedLines[i]) # <<>> /\ Stripped(fedLines[i])[1] = "HTTP/"}

\* C39: no line the executor delivers removes or reorders what the collector
\* holds: every name keeps its values, new values go behind them, a status
\* line changes nothing, and the mapping holds one value for every header line
\* of every block
C39_CollectorNeverCleared ==
  /\ [][\A k \in DOMAIN headerMap :
          /\ k \in DOMAIN headerMap'
          /\ Len(headerMap'[k]) >= Len(headerMap[k])
          /\ SubSeq(headerMap'[k], 1, Len(headerMap[k])) = headerMap[k]]_vars
  /\ [][(Len(fedLines') = Len(fedLines) + 1 /\ Len(fedLines') \in StatusLines') =>
          headerMap' = headerMap]_vars
  /\ [](NumValues(headerMap) = Cardinality(HeaderLines(fedLines)))

\* two blocks have arrived, each with its status line and one header line: the
\* mapping holds the first block's value before the second block's
C39_Witness ==
  /\ Len(fedLines) = 5
  /\ StatusLines = {1, 4}
  /\ HeaderLines(fedLines) = {2, 5}
  /\ headerMap = [n \in {<<"X">>} |-> << <<"x">>, <<"X">> >>]

====
